---- MODULE Spec2Model ----
(***************************************************************************)
(* Feature-extraction and feature-importance pipeline of the industrial    *)
(* sensor chatbot:                                                         *)
(*   src/src/analysis/feature_extractor.py   windowed extractor,            *)
(*                                            acquisition processor,       *)
(*                                            parallel corpus builder      *)
(*   src/src/analysis/feature_importance.py  resolver and analyzer          *)
(*   src/src/agent/core.py                   chat dispatcher (caller)       *)
(*                                                                         *)
(* Numbers.  Sampling rates, timestamps and statistics are floats in the   *)
(* code.  Here a rate or a statistic is an exact rational <<num, den>>     *)
(* with den > 0, samples are small integers.  Square roots are not taken:  *)
(* the column "std" holds the population variance and "rms" the mean       *)
(* square, of which the code's values are the (monotone) square roots.     *)
(***************************************************************************)
EXTENDS Integers, Sequences, FiniteSets, TLC

(***************************************************************************)
(* Bounds of the model.                                                    *)
(***************************************************************************)
MaxLen == 5          \* longest stream given to the extractor on its own
MaxVal == 1          \* samples range over 0..MaxVal
MaxW == 3            \* largest window length given to the extractor on its own
MaxAcq == 2          \* most acquisition folders in a dataset root
MaxFiles == 2        \* most sensor files in one acquisition folder
MaxRateShift == 1    \* declared rates are multiples of 1/2^s Hz, s <= MaxRateShift
MaxRows == 20        \* most rows of a feature table with bad rows
MaxFeats == 2        \* most feature columns of such a table
MaxBad == 2          \* most bad rows of such a table
MaxRank == 22        \* most feature columns of a table with many features
MaxReqs == 2         \* most requests in a target_sensors list

(***************************************************************************)
(* Program constants.                                                      *)
(***************************************************************************)
TARGET_SECONDS == <<1, 1>>          \* 1.0
MASTER_DURATION == <<123, 100>>     \* 1.23
HighSpeedHz == 1000                 \* the literal in "odr > 1000"

(***************************************************************************)
(* Arithmetic helpers.                                                     *)
(***************************************************************************)
\* the sum and the largest of s[lo..hi], by halves
RECURSIVE SumRange(_, _, _)
SumRange(s, lo, hi) ==
    IF lo > hi THEN 0
    ELSE IF lo = hi THEN s[lo]
    ELSE LET mid == (lo + hi) \div 2
         IN  SumRange(s, lo, mid) + SumRange(s, mid + 1, hi)

RECURSIVE MaxRange(_, _, _)
MaxRange(s, lo, hi) ==
    IF lo = hi THEN s[lo]
    ELSE LET mid == (lo + hi) \div 2
             a == MaxRange(s, lo, mid)
             b == MaxRange(s, mid + 1, hi)
         IN  IF a >= b THEN a ELSE b

SumSeq(s) == SumRange(s, 1, Len(s))
MaxSeq(s) == MaxRange(s, 1, Len(s))

Pow2(x) == x * x
Pow4(x) == x * x * x * x

\* rational comparison with an integer: num/den > k
RatGT(q, k) == q[1] > k * q[2]

(***************************************************************************)
(* DataFrames.  A frame is [columns, values]: columns is the sequence of   *)
(* column names, values[j] the samples of column j (all of one length).    *)
(* A column name is the sequence of its whitespace-separated tokens, so    *)
(* that "x [g]" is <<"x", "[g]">> and str.split()[0] is its first token.   *)
(* The empty frame pd.DataFrame() is the empty sequence of rows.           *)
(***************************************************************************)
TimeCol == <<"Time">>
ExcludedCols == { <<"Time">>, <<"SW_TAG_0">>, <<"SW_TAG_1">>, <<"SW_TAG_2">>,
                  <<"HW_TAG_0">>, <<"HW_TAG_1">>, <<"HW_TAG_2">>,
                  <<"HW_TAG_3">>, <<"HW_TAG_4">> }

EmptyFrame == <<>>

\* len(df)
NRows(df) == IF Len(df.values) = 0 THEN 0 ELSE Len(df.values[1])

\* data_cols = [c for c in df.columns if c not in [...]], as column indices
RECURSIVE DataColsFrom(_, _)
DataColsFrom(df, j) ==
    IF j > Len(df.columns) THEN <<>>
    ELSE IF df.columns[j] \in ExcludedCols THEN DataColsFrom(df, j + 1)
    ELSE <<j>> \o DataColsFrom(df, j + 1)

DataCols(df) == DataColsFrom(df, 1)

(***************************************************************************)
(* Per-window statistics (feature_extractor.py lines 51-61), each an exact *)
(* rational <<num, den>> of the window w, a non-empty sequence of samples. *)
(***************************************************************************)
\* np.mean(reshaped, axis=1)
StatMean(w) == <<SumSeq(w), Len(w)>>

\* np.std(reshaped, axis=1): population variance (W*sum(x^2) - sum(x)^2) / W^2
StatStd(w) ==
    LET W == Len(w)
        S == SumSeq(w)
        SS == SumSeq([k \in 1..W |-> Pow2(w[k])])
    IN  <<W * SS - S * S, W * W>>

\* np.max(reshaped, axis=1)
StatPeak(w) == <<MaxSeq(w), 1>>

\* np.sqrt(np.mean(reshaped ** 2, axis=1)): the mean square
StatRms(w) == <<SumSeq([k \in 1..Len(w) |-> Pow2(w[k])]), Len(w)>>

\* scipy kurtosis (Fisher, biased) m4 / m2^2 - 3, then nan_to_num(nan=0.0).
\* With d[k] = W*x[k] - sum(x): m4/m2^2 = W * sum(d^4) / sum(d^2)^2.
StatKurtosis(w) ==
    LET W == Len(w)
        S == SumSeq(w)
        D2 == SumSeq([k \in 1..W |-> Pow2(W * w[k] - S)])
        D4 == SumSeq([k \in 1..W |-> Pow4(W * w[k] - S)])
    IN  IF D2 = 0 THEN <<0, 1>> ELSE <<W * D4 - 3 * D2 * D2, D2 * D2>>

\* |np.fft.rfft(w)|^2, bins 0 .. W//2, exact in integers for W <= 4 and,
\* for longer windows, for a constant window (all the energy is in bin 0)
FftMagSq(w) ==
    CASE Len(w) = 1 -> << Pow2(w[1]) >>
      [] Len(w) = 2 -> << Pow2(w[1] + w[2]), Pow2(w[1] - w[2]) >>
      [] Len(w) = 3 -> << Pow2(w[1] + w[2] + w[3]),
                          Pow2(w[1]) + Pow2(w[2]) + Pow2(w[3])
                            - w[1] * w[2] - w[2] * w[3] - w[1] * w[3] >>
      [] Len(w) = 4 -> << Pow2(w[1] + w[2] + w[3] + w[4]),
                          Pow2(w[1] - w[3]) + Pow2(w[2] - w[4]),
                          Pow2(w[1] - w[2] + w[3] - w[4]) >>
      [] Len(w) > 4 /\ (\A k \in 1..Len(w) : w[k] = w[1]) ->
                       [b \in 1..(Len(w) \div 2 + 1) |->
                          IF b = 1 THEN Pow2(Len(w) * w[1]) ELSE 0]

\* np.argmax: the first index (from 0) of the largest element
ArgMax(m) ==
    (CHOOSE k \in 1..Len(m) :
        /\ \A l \in 1..Len(m) : m[l] <= m[k]
        /\ \A l \in 1..(k - 1) : m[l] < m[k]) - 1

\* freq_labels[peak_indices] with freq_labels = rfftfreq(W, d=1/odr) = k*odr/W
StatPeakFreq(w, odr) == <<ArgMax(FftMagSq(w)) * odr[1], Len(w) * odr[2]>>

(***************************************************************************)
(* process_sensor_dataframe_vectorized (feature_extractor.py 17-112).      *)
(***************************************************************************)
\* n_windows with the last full window lost when the length is a multiple
n_windows_short(n_rows, window_size) == (n_rows - 1) \div window_size

\* n_windows = n_rows // window_size
n_windows(n_rows, window_size) == n_rows \div window_size

\* keep_len = n_windows * window_size
keep_len(n_rows, window_size) == n_windows(n_rows, window_size) * window_size

\* raw_data taken from the end of the stream: .iloc[-keep_len:]
raw_data_tail(df, j, window_size) ==
    SubSeq(df.values[j],
           NRows(df) - keep_len(NRows(df), window_size) + 1, NRows(df))

\* raw_data = df[data_cols].iloc[:keep_len].values, column j
raw_data(df, j, window_size) ==
    SubSeq(df.values[j], 1, keep_len(NRows(df), window_size))

\* reshaped = raw_data.reshape(n_windows, window_size, n_cols): window i of
\* one column (i counted from 1) is samples (i-1)*W+1 .. i*W of raw_data
reshaped(raw, i, window_size) ==
    SubSeq(raw, (i - 1) * window_size + 1, i * window_size)

\* the statistic columns written for each data column
StatNames_inclusive(odr) ==
    {"mean", "std", "peak", "kurtosis", "rms"}
        \cup (IF ~RatGT(<<HighSpeedHz * odr[2], 1>>, odr[1])
              THEN {"peak_freq"} ELSE {})
StatNames(odr) ==
    {"mean", "std", "peak", "kurtosis", "rms"}
        \cup (IF RatGT(odr, HighSpeedHz) THEN {"peak_freq"} ELSE {})

StatValue(stat, w, odr) ==
    CASE stat = "mean" -> StatMean(w)
      [] stat = "std" -> StatStd(w)
      [] stat = "peak" -> StatPeak(w)
      [] stat = "kurtosis" -> StatKurtosis(w)
      [] stat = "rms" -> StatRms(w)
      [] stat = "peak_freq" -> StatPeakFreq(w, odr)

\* prefix = f'{sensor_name}_{sensor_type}_{clean_col}'
Prefix(df, j, sensor_name, sensor_type) ==
    <<sensor_name, sensor_type, df.columns[j][1]>>

\* feature_data of window i: a dict, so a later column of the same prefix
\* overwrites an earlier one
feature_data(df, i, window_size, sensor_name, sensor_type, odr) ==
    LET cols == DataCols(df)
        names == { Prefix(df, cols[c], sensor_name, sensor_type) \o <<s>> :
                     c \in 1..Len(cols), s \in StatNames(odr) }
        last(name) == CHOOSE c \in 1..Len(cols) :
            /\ Prefix(df, cols[c], sensor_name, sensor_type) = SubSeq(name, 1, 3)
            /\ \A e \in (c + 1)..Len(cols) :
                 Prefix(df, cols[e], sensor_name, sensor_type) # SubSeq(name, 1, 3)
    IN  [name \in names |->
            StatValue(name[4],
                      reshaped(raw_data(df, cols[last(name)], window_size),
                               i, window_size),
                      odr)]

\* the returned table: one row per window, the metadata replicated on each
process_sensor_dataframe_vectorized(df, window_size, sensor_name, sensor_type, metadata_dict, odr) ==
    IF DataCols(df) = <<>> THEN EmptyFrame
    ELSE IF n_windows(NRows(df), window_size) = 0 THEN EmptyFrame
    ELSE [i \in 1..n_windows(NRows(df), window_size) |->
            [features |-> feature_data(df, i, window_size, sensor_name,
                                       sensor_type, odr),
             Condition_Type |-> metadata_dict.Condition_Type,
             Fault_Detail |-> metadata_dict.Fault_Detail,
             Binary_Label |-> metadata_dict.Binary_Label,
             Acquisition_ID |-> metadata_dict.Acquisition_ID]]
(***************************************************************************)
(* Dictionaries.  A Python dict is the sequence of its <<key, value>>      *)
(* pairs in insertion order, with no key twice.                            *)
(***************************************************************************)
EmptyDict == <<>>
DictKeys(d) == { d[i][1] : i \in 1..Len(d) }
DictGet(d, k) == d[CHOOSE i \in 1..Len(d) : d[i][1] = k][2]
\* d[k] = v
DictSet(d, k, v) ==
    IF k \in DictKeys(d)
    THEN [i \in 1..Len(d) |-> IF d[i][1] = k THEN <<k, v>> ELSE d[i]]
    ELSE Append(d, <<k, v>>)

(***************************************************************************)
(* Window length (feature_extractor.py 154-159).  A rate is a rational     *)
(* <<num, den>>; None is NoneRate.  The code multiplies in double          *)
(* precision; for integer rates up to 200000 and quarter-integer rates up  *)
(* to 3000 int() of the float product equals the exact truncation below.   *)
(***************************************************************************)
NoneRate == <<0, 0>>
IsNone(odr) == odr[2] = 0

RatMul(p, q) == <<p[1] * q[1], p[2] * q[2]>>

\* int(x): truncation toward zero
IntTrunc(q) == IF q[1] >= 0 THEN q[1] \div q[2] ELSE -((-q[1]) \div q[2])

\* int.bit_length() of n >= 0
RECURSIVE bit_length(_)
bit_length(n) == IF n = 0 THEN 0 ELSE 1 + bit_length(n \div 2)

RECURSIVE ShiftLeft1(_)
ShiftLeft1(k) == IF k = 0 THEN 1 ELSE 2 * ShiftLeft1(k - 1)

MaxInt(a, b) == IF a >= b THEN a ELSE b

\* the window rule without the "- 1" before bit_length()
window_size_of_doubling(odr) ==
    IF RatGT(odr, HighSpeedHz)
    THEN LET raw_samples == RatMul(odr, TARGET_SECONDS)
         IN  ShiftLeft1(bit_length(IntTrunc(raw_samples)))
    ELSE MaxInt(1, IntTrunc(RatMul(odr, MASTER_DURATION)))

\* lines 155-159
window_size_of(odr) ==
    IF RatGT(odr, HighSpeedHz)
    THEN LET raw_samples == RatMul(odr, TARGET_SECONDS)
         IN  ShiftLeft1(bit_length(IntTrunc(raw_samples) - 1))
    ELSE MaxInt(1, IntTrunc(RatMul(odr, MASTER_DURATION)))

(***************************************************************************)
(* Acquisition folders.  A folder is [meta, files]:                        *)
(*   meta   metadata.json: whether it can be opened and parsed, whether    *)
(*          it has "session_info" (with condition and fault_detail) and    *)
(*          "sensors", and the declared sampling_rate_hz of each sensor    *)
(*          key, a dict from <<name, type>> to a rate or NoneRate;         *)
(*   files  the *.parquet files in the order glob returns them, each       *)
(*          [parts, readable, df]: parts are the "_"-separated pieces of   *)
(*          the file name without ".parquet".                              *)
(***************************************************************************)
\* the Time column of a frame (0 when there is none)
TimeIndex(df) ==
    IF \E j \in 1..Len(df.columns) : df.columns[j] = TimeCol
    THEN CHOOSE j \in 1..Len(df.columns) : df.columns[j] = TimeCol
    ELSE 0

\* lines 147-152: the rate used when the metadata declares None; the rate
\* stays None when the duration is not positive.  Raises (KeyError,
\* IndexError) without a Time column or without rows.
EstimateRaises(df) == TimeIndex(df) = 0 \/ NRows(df) = 0

estimated_odr(df) ==
    LET t == df.values[TimeIndex(df)]
        duration == t[Len(t)] - t[1]
    IN  IF duration > 0 THEN <<NRows(df), duration>> ELSE NoneRate

\* lines 137-180 for one file: what the loop body does with it.
\*   raised       an exception left the loop body
\*   odr, window  the rate and the window length given to the extractor
\*   key, batch   the sensor key and the table the extractor returned
process_file(acq_info, file, metadata) ==
    LET parts == file.parts
        NoResult == [raised |-> TRUE, odr |-> NoneRate, window_size |-> 0,
                     key |-> <<>>, batch |-> EmptyFrame]
    IN  IF Len(parts) < 2 THEN NoResult                       \* IndexError
        ELSE
        LET sensor_name == parts[1]
            sensor_type == parts[2]
            unique_key == <<sensor_name, sensor_type>>
        IN  IF ~acq_info.has_sensors \/ unique_key \notin DictKeys(acq_info.sensors)
            THEN NoResult                                     \* KeyError
            ELSE IF ~file.readable THEN NoResult              \* read_parquet
            ELSE
            LET declared == DictGet(acq_info.sensors, unique_key)
                df == file.df
            IN  IF IsNone(declared) /\ EstimateRaises(df) THEN NoResult
                ELSE
                LET odr == IF IsNone(declared) THEN estimated_odr(df)
                           ELSE declared
                IN  IF IsNone(odr) THEN NoResult   \* TypeError: None > 1000
                    ELSE [raised |-> FALSE,
                          odr |-> odr,
                          window_size |-> window_size_of(odr),
                          key |-> unique_key,
                          batch |-> process_sensor_dataframe_vectorized(
                                       df, window_size_of(odr), sensor_name,
                                       sensor_type, metadata, odr)]

\* lines 176-180: the table goes into local_results unless it is empty
store_always(local_results, unique_key, batch_df) ==
    DictSet(local_results, unique_key, batch_df)
store(local_results, unique_key, batch_df) ==
    IF batch_df # EmptyFrame
    THEN DictSet(local_results, unique_key, batch_df)
    ELSE local_results

\* lines 133-185: the loop over the files inside the one try block.  An
\* exception in the body leaves the loop; local_results keeps what the
\* files before it stored.  visited records, per file reached, what
\* process_file did (for the properties, not program state).
RECURSIVE process_files(_, _, _, _, _)
process_files(acq_info, files, k, metadata, acc) ==
    IF k > Len(files) THEN acc
    ELSE LET r == process_file(acq_info, files[k], metadata)
             seen == Append(acc.visited,
                            [index |-> k, raised |-> r.raised, odr |-> r.odr,
                             window_size |-> r.window_size])
         IN  IF r.raised
             THEN [local_results |-> acc.local_results, visited |-> seen]
             ELSE process_files(acq_info, files, k + 1, metadata,
                    [local_results |->
                        store(acc.local_results, r.key, r.batch),
                     visited |-> seen])

\* lines 115-187.  task is [folder, acq_folder_name, binary_label]; the
\* result is [raised, local_results, visited].  Opening or parsing
\* metadata.json and reading session_info happen before the try block.
process_single_acquisition_folder(task) ==
    LET acq_info == task.folder.meta
    IN  IF ~acq_info.exists \/ ~acq_info.has_session_info
        THEN [raised |-> TRUE, local_results |-> EmptyDict, visited |-> <<>>]
        ELSE LET metadata == [Condition_Type |-> acq_info.condition,
                              Fault_Detail |-> acq_info.fault_detail,
                              Binary_Label |-> task.binary_label,
                              Acquisition_ID |-> task.acq_folder_name]
                 r == process_files(acq_info, task.folder.files, 1, metadata,
                                    [local_results |-> EmptyDict,
                                     visited |-> <<>>])
             IN  [raised |-> FALSE, local_results |-> r.local_results,
                  visited |-> r.visited]

(***************************************************************************)
(* State.                                                                  *)
(*   x_*  the extractor run on its own: a reference stream x_ref, a second  *)
(*        stream x_df of the same shape, the window length and rate given  *)
(*        to both runs, and the table each run returned.                   *)
(*   Corpus builder (load_and_label_all_data_parallel):                    *)
(*   root      the dataset root: the label directories in os.listdir       *)
(*             order, each [name, isdir, entries], entries being the       *)
(*             acquisition folders [name, isdir, folder] in listdir order  *)
(*   out_dir   os.path.join(FEATURES_DIR, dir_name): whether it exists and *)
(*             the dict of the <key>.csv tables in it                      *)
(*   pc        "start", "pool" (tasks submitted to the executor), "merged" *)
(*             (results collected and merged), "done" (returned),          *)
(*             "raised" (an exception left the function)                   *)
(*   tasks     the tuples given to executor.map                            *)
(*   futures   per task, "queued" or the finished call's outcome           *)
(*   results   list(executor.map(...))                                     *)
(*   final_features_by_sensor   the bucket dict, key -> list of tables     *)
(*   ret       what the function returned to its caller                    *)
(*   Analyzer (run_analysis) and the statement of the dispatcher that      *)
(*   calls it (core.py 178-192):                                           *)
(*   a_dir      the feature directory: whether it exists and its *.csv      *)
(*              files in glob order, each [stem, table]                    *)
(*   a_alg, a_targets   the algorithm tag and the target_sensors list      *)
(*   a_pc       "call", "returned" (run_analysis ended), "unpacked"        *)
(*   a_ret      how run_analysis ended and what it returned                *)
(*   a_caller   what "is_valid, results = run_analysis(...)" and the       *)
(*              branch on is_valid made of it                              *)
(*   a_loaded   the files run_analysis gave to pd.read_csv, in order, each *)
(*              [stem, rows, filled]: the rows the bad-row policy left in  *)
(*              X and the rows it zero-filled                              *)
(*   a_resolved the pair get_valid_sensor_files returned at line 117:      *)
(*              all_correct and the list valid_paths                       *)
(*   The dispatcher (generate_ollma_response) serving one request of       *)
(*   category feature_importance_analysis:                                 *)
(*   c_dataset  whether st.session_state.DATASET_PATH is set               *)
(*   c_vague    the router's is_vague                                      *)
(*   c_pc       "route", "heavy" (the request passed the checks of lines   *)
(*              160-168), "analysis" (run_analysis called), "done",        *)
(*              "raised" (an exception left the dispatcher)                *)
(*   c_extracted  whether load_and_label_all_data_parallel was invoked     *)
(*   c_flag     system_flag                                                *)
(*   c_category the router's category ("not_json" when its output does not *)
(*              decode)                                                    *)
(*   c_tool     "none" while no analysis or plotting tool was invoked,     *)
(*              "output" when one returned its output, "no_output" when    *)
(*              one was invoked and returned none                          *)
(*   c_yields   what the generator yielded from line 250 on                *)
(***************************************************************************)
VARIABLES x_ref, x_df, x_w, x_odr, x_ref_out, x_out,
          root, out_dir, pc, tasks, futures, results,
          final_features_by_sensor, ret,
          a_dir, a_alg, a_targets, a_pc, a_ret, a_caller, a_loaded, a_resolved,
          c_dataset, c_vague, c_pc, c_extracted, c_flag,
          c_category, c_tool, c_yields

xvars == <<x_ref, x_df, x_w, x_odr, x_ref_out, x_out>>
bvars == <<root, out_dir, pc, tasks, futures, results,
           final_features_by_sensor, ret>>
cvars == <<c_dataset, c_vague, c_pc, c_extracted, c_flag,
           c_category, c_tool, c_yields>>
avars == <<a_dir, a_alg, a_targets, a_pc, a_ret, a_caller, a_loaded, a_resolved,
           c_dataset, c_vague, c_pc, c_extracted, c_flag,
           c_category, c_tool, c_yields>>
vars == <<x_ref, x_df, x_w, x_odr, x_ref_out, x_out,
          root, out_dir, pc, tasks, futures, results,
          final_features_by_sensor, ret,
          a_dir, a_alg, a_targets, a_pc, a_ret, a_caller, a_loaded, a_resolved,
          c_dataset, c_vague, c_pc, c_extracted, c_flag,
           c_category, c_tool, c_yields>>

NotRun == [ran |-> FALSE, table |-> EmptyFrame]
Ran(table) == [ran |-> TRUE, table |-> table]

(***************************************************************************)
(* Streams given to the extractor on its own: a Time column, a tag column  *)
(* and, in the second layout, one data column "x [g]".                     *)
(***************************************************************************)
AxisCol == <<"x", "[g]">>
TagCol == <<"SW_TAG_0">>
Layouts == { <<TimeCol, TagCol>>, <<TimeCol, TagCol, AxisCol>> }

SampleSeqs(n) == [1..n -> 0..MaxVal]

Frame(layout, n, xs) ==
    [columns |-> layout,
     values |-> [j \in 1..Len(layout) |->
                    IF layout[j] = TimeCol THEN [k \in 1..n |-> k - 1]
                    ELSE IF layout[j] = TagCol THEN [k \in 1..n |-> 0]
                    ELSE xs]]

FramesOfShape(layout, n) ==
    IF AxisCol \in {layout[j] : j \in 1..Len(layout)}
    THEN { Frame(layout, n, xs) : xs \in SampleSeqs(n) }
    ELSE { Frame(layout, n, <<>>) }

Frames == UNION { FramesOfShape(layout, n) : layout \in Layouts, n \in 0..MaxLen }

\* rates on both sides of the high-speed threshold
ExtractorRates == { <<HighSpeedHz, 1>>, <<HighSpeedHz + 1, 1>> }

HarnessMeta == [Condition_Type |-> "c", Fault_Detail |-> "f",
                Binary_Label |-> "OK", Acquisition_ID |-> "sess1"]

RunExtractor(df) ==
    process_sensor_dataframe_vectorized(df, x_w, "S", "T", HarnessMeta, x_odr)

\* the corpus builder is not running
BuilderIdle ==
    /\ root = <<>>
    /\ out_dir = [exists |-> FALSE, files |-> EmptyDict]
    /\ pc = "idle"
    /\ tasks = <<>>
    /\ futures = <<>>
    /\ results = <<>>
    /\ final_features_by_sensor = EmptyDict
    /\ ret = "none"

\* get_valid_sensor_files has not returned
NotResolved == [all_correct |-> FALSE, valid_paths |-> <<>>]

\* no request is being served by the dispatcher
ChatIdle ==
    /\ c_dataset = FALSE
    /\ c_vague = FALSE
    /\ c_pc = "idle"
    /\ c_extracted = FALSE
    /\ c_flag = ""
    /\ c_category = "none"
    /\ c_tool = "none"
    /\ c_yields = <<>>

\* run_analysis is not in use
AnalyzerIdle ==
    /\ ChatIdle
    /\ a_loaded = <<>>
    /\ a_resolved = NotResolved
    /\ a_dir = [exists |-> FALSE, files |-> <<>>]
    /\ a_alg = "rf"
    /\ a_targets = <<>>
    /\ a_pc = "idle"
    /\ a_ret = [kind |-> "none", is_valid |-> FALSE,
                sensor_scores |-> <<>>, top_features |-> <<>>]
    /\ a_caller = "idle"

InitExtract ==
    /\ BuilderIdle
    /\ AnalyzerIdle
    /\ x_ref \in Frames
    /\ x_df = x_ref
    /\ x_w \in 1..MaxW
    /\ x_odr \in ExtractorRates
    /\ x_ref_out = NotRun
    /\ x_out = NotRun

\* the extractor is called on the reference stream
ExtractRef ==
    /\ ~x_ref_out.ran
    /\ x_ref_out' = Ran(RunExtractor(x_ref))
    /\ UNCHANGED <<x_ref, x_df, x_w, x_odr, x_out>>
    /\ UNCHANGED bvars
    /\ UNCHANGED avars

\* the second stream is given other sample values from some position on
\* (same columns and length)
PerturbSamples ==
    /\ x_ref_out.ran /\ ~x_out.ran
    /\ x_df = x_ref
    /\ \E p \in 1..NRows(x_ref), v \in 0..MaxVal :
          LET f == [x_ref EXCEPT !.values =
                      [j \in 1..Len(x_ref.columns) |->
                          IF x_ref.columns[j] = AxisCol
                          THEN [k \in 1..NRows(x_ref) |->
                                  IF k >= p THEN v ELSE x_ref.values[j][k]]
                          ELSE x_ref.values[j]]]
          IN  /\ f # x_ref
              /\ x_df' = f
    /\ UNCHANGED <<x_ref, x_w, x_odr, x_ref_out, x_out>>
    /\ UNCHANGED bvars
    /\ UNCHANGED avars

\* the extractor is called on the second stream
Extract ==
    /\ x_ref_out.ran /\ ~x_out.ran
    /\ x_out' = Ran(RunExtractor(x_df))
    /\ UNCHANGED <<x_ref, x_df, x_w, x_odr, x_ref_out>>
    /\ UNCHANGED bvars
    /\ UNCHANGED avars

NextExtract == ExtractRef \/ PerturbSamples \/ Extract

SpecExtract == InitExtract /\ [][NextExtract]_vars

(***************************************************************************)
(* C5.  For a stream of L >= 0 samples with at least one data column and   *)
(* a window length W >= 1 the extractor returns exactly floor(L / W) rows, *)
(* the empty table when that is 0, and two runs on the same input return   *)
(* the same table.                                                         *)
(***************************************************************************)
RowCountOk(df, out) ==
    (out.ran /\ DataCols(df) # <<>>) =>
        /\ Len(out.table) = NRows(df) \div x_w
        /\ (NRows(df) \div x_w = 0 => out.table = EmptyFrame)

C5_WindowCount ==
    /\ RowCountOk(x_ref, x_ref_out)
    /\ RowCountOk(x_df, x_out)
    /\ (x_ref_out.ran /\ x_out.ran /\ x_df = x_ref) => x_out = x_ref_out

C5_Witness ==
    /\ x_ref_out.ran /\ x_out.ran /\ x_df = x_ref
    /\ DataCols(x_df) # <<>>
    /\ NRows(x_df) % x_w # 0
    /\ Len(x_out.table) = 2

(***************************************************************************)
(* C6.  For L not a multiple of W, two streams that differ only in the     *)
(* last L mod W samples give identical tables, and the statistics of row i *)
(* are those of samples (i-1)*W+1 .. i*W of the stream (counted from 1).   *)
(***************************************************************************)
SameHead(f, g, w) ==
    /\ f.columns = g.columns
    /\ NRows(f) = NRows(g)
    /\ \A j \in 1..Len(f.columns) :
          SubSeq(f.values[j], 1, (NRows(f) \div w) * w)
            = SubSeq(g.values[j], 1, (NRows(g) \div w) * w)

WindowOnly(df, out) ==
    (out.ran /\ DataCols(df) # <<>>) =>
        \A i \in 1..Len(out.table) :
            LET win == [k \in 1..x_w |-> df.values[3][(i - 1) * x_w + k]]
                f == out.table[i].features
            IN  /\ f[<<"S", "T", "x", "mean">>] = StatMean(win)
                /\ f[<<"S", "T", "x", "std">>] = StatStd(win)
                /\ f[<<"S", "T", "x", "peak">>] = StatPeak(win)
                /\ f[<<"S", "T", "x", "kurtosis">>] = StatKurtosis(win)
                /\ f[<<"S", "T", "x", "rms">>] = StatRms(win)
                /\ RatGT(x_odr, HighSpeedHz) =>
                      f[<<"S", "T", "x", "peak_freq">>] = StatPeakFreq(win, x_odr)

C6_TailDrop ==
    /\ (/\ x_ref_out.ran /\ x_out.ran
        /\ NRows(x_ref) % x_w # 0
        /\ SameHead(x_ref, x_df, x_w)) => x_out.table = x_ref_out.table
    /\ WindowOnly(x_ref, x_ref_out)
    /\ WindowOnly(x_df, x_out)

C6_Witness ==
    /\ x_ref_out.ran /\ x_out.ran
    /\ NRows(x_ref) % x_w # 0
    /\ x_df # x_ref
    /\ SameHead(x_ref, x_df, x_w)
    /\ Len(x_out.table) >= 1
    /\ RatGT(x_odr, HighSpeedHz)
(***************************************************************************)
(* load_and_label_all_data_parallel (feature_extractor.py 190-240).        *)
(***************************************************************************)
\* the extractor harness is not in use
ExtractorIdle ==
    /\ x_ref = [columns |-> <<>>, values |-> <<>>]
    /\ x_df = [columns |-> <<>>, values |-> <<>>]
    /\ x_w = 1
    /\ x_odr = <<1, 1>>
    /\ x_ref_out = NotRun
    /\ x_out = NotRun

\* lines 199-203: the tasks of one label directory
RECURSIVE TasksOfDir(_, _)
TasksOfDir(dir, k) ==
    IF k > Len(dir.entries) THEN <<>>
    ELSE (IF dir.entries[k].isdir
          THEN << [folder |-> dir.entries[k].folder,
                   acq_folder_path |-> <<dir.name, dir.entries[k].name>>,
                   acq_folder_name |-> dir.entries[k].name,
                   binary_label |-> dir.name] >>
          ELSE <<>>) \o TasksOfDir(dir, k + 1)

\* lines 192-203: the two-level walk below root_dir
RECURSIVE TasksFrom(_, _)
TasksFrom(r, k) ==
    IF k > Len(r) THEN <<>>
    ELSE (IF r[k].isdir THEN TasksOfDir(r[k], 1) ELSE <<>>) \o TasksFrom(r, k + 1)

\* the merge with "= [df]" in place of ".append(df)"
RECURSIVE MergeDict_overwrite(_, _, _)
MergeDict_overwrite(bucket, result_dict, k) ==
    IF k > Len(result_dict) THEN bucket
    ELSE MergeDict_overwrite(DictSet(bucket, result_dict[k][1],
                                     << result_dict[k][2] >>),
                             result_dict, k + 1)

\* lines 216-220: the merge of the collected results into the bucket dict
RECURSIVE MergeDict(_, _, _)
MergeDict(bucket, result_dict, k) ==
    IF k > Len(result_dict) THEN bucket
    ELSE LET sensor_key == result_dict[k][1]
             df == result_dict[k][2]
             have == IF sensor_key \in DictKeys(bucket)
                     THEN DictGet(bucket, sensor_key) ELSE <<>>
         IN  MergeDict(DictSet(bucket, sensor_key, Append(have, df)),
                       result_dict, k + 1)

\* the merge of every other collected result only
RECURSIVE MergeResults_alternate(_, _, _)
MergeResults_alternate(bucket, res, k) ==
    IF k > Len(res) THEN bucket
    ELSE MergeResults_alternate(MergeDict(bucket, res[k], 1), res, k + 2)

RECURSIVE MergeResults(_, _, _)
MergeResults(bucket, res, k) ==
    IF k > Len(res) THEN bucket
    ELSE MergeResults(MergeDict(bucket, res[k], 1), res, k + 1)

\* the save of the last table of the list only
Concat_last(list_of_dfs) ==
    IF list_of_dfs = <<>> THEN <<>> ELSE list_of_dfs[Len(list_of_dfs)]

\* pd.concat(list_of_dfs, ignore_index=True)
RECURSIVE Concat(_)
Concat(list_of_dfs) ==
    IF list_of_dfs = <<>> THEN <<>>
    ELSE Head(list_of_dfs) \o Concat(Tail(list_of_dfs))

\* lines 231-239: every bucket written to <name>.csv, replacing a file of
\* that name
RECURSIVE SaveAll(_, _, _)
SaveAll(files, bucket, k) ==
    IF k > Len(bucket) THEN files
    ELSE SaveAll(DictSet(files, bucket[k][1], Concat(bucket[k][2])),
                 bucket, k + 1)

Queued == [state |-> "queued", raised |-> FALSE,
           local_results |-> EmptyDict, visited |-> <<>>]

\* lines 192-212: walk the root, submit one call per acquisition folder
Dispatch ==
    /\ pc = "start"
    /\ tasks' = TasksFrom(root, 1)
    /\ futures' = [i \in 1..Len(TasksFrom(root, 1)) |-> Queued]
    /\ pc' = "pool"
    /\ UNCHANGED <<root, out_dir, results, final_features_by_sensor, ret>>
    /\ UNCHANGED xvars
    /\ UNCHANGED avars

\* a worker process runs one submitted call to its end; calls still in the
\* pool when the function has raised may finish as well
RunTask(i) ==
    /\ pc \in {"pool", "raised"}
    /\ futures[i].state = "queued"
    /\ LET r == process_single_acquisition_folder(tasks[i])
       IN  futures' = [futures EXCEPT ![i] =
                          [state |-> "finished", raised |-> r.raised,
                           local_results |-> r.local_results,
                           visited |-> r.visited]]
    /\ UNCHANGED <<root, out_dir, pc, tasks, results,
                   final_features_by_sensor, ret>>
    /\ UNCHANGED xvars
    /\ UNCHANGED avars

\* line 212: list(executor.map(...)) re-raises the exception of the first
\* call (in submission order) that raised, once the calls before it returned
CollectRaise ==
    /\ pc = "pool"
    /\ \E i \in 1..Len(tasks) :
          /\ futures[i].state = "finished" /\ futures[i].raised
          /\ \A j \in 1..(i - 1) :
                futures[j].state = "finished" /\ ~futures[j].raised
    /\ pc' = "raised"
    /\ ret' = "exception"
    /\ UNCHANGED <<root, out_dir, tasks, futures, results,
                   final_features_by_sensor>>
    /\ UNCHANGED xvars
    /\ UNCHANGED avars

\* line 212: list(...) has consumed the iterator of executor.map, which
\* hands out the results in submission order, each when its call returned
first_returned(futs) ==
    IF futs = <<>> THEN TRUE
    ELSE futs[1].state = "finished" /\ ~futs[1].raised
all_returned(futs) ==
    \A i \in 1..Len(futs) : futs[i].state = "finished" /\ ~futs[i].raised

\* lines 212-220: every call returned; the results are collected in
\* submission order and merged
CollectAndMerge ==
    /\ pc = "pool"
    /\ all_returned(futures)
    /\ results' = [i \in 1..Len(tasks) |-> futures[i].local_results]
    /\ final_features_by_sensor' =
          MergeResults(EmptyDict,
                       [i \in 1..Len(tasks) |-> futures[i].local_results], 1)
    /\ pc' = "merged"
    /\ UNCHANGED <<root, out_dir, tasks, futures, ret>>
    /\ UNCHANGED xvars
    /\ UNCHANGED avars

\* lines 224-240: the final save, then the function returns (None)
Save ==
    /\ pc = "merged"
    /\ out_dir' = IF final_features_by_sensor # EmptyDict
                  THEN [exists |-> TRUE,
                        files |-> SaveAll(out_dir.files,
                                          final_features_by_sensor, 1)]
                  ELSE out_dir
    /\ pc' = "done"
    /\ ret' = "None"
    /\ UNCHANGED <<root, tasks, futures, results, final_features_by_sensor>>
    /\ UNCHANGED xvars
    /\ UNCHANGED avars

Next ==
    \/ Dispatch
    \/ \E i \in 1..Len(tasks) : RunTask(i)
    \/ CollectRaise
    \/ CollectAndMerge
    \/ Save
(***************************************************************************)
(* Datasets.                                                               *)
(***************************************************************************)
SensorKey(parts) == <<parts[1], parts[2]>>

\* a sensor file together with what metadata.json says about it
FileSpec(parts, readable, df, declared, in_meta) ==
    [parts |-> parts, readable |-> readable, df |-> df,
     declared |-> declared, in_meta |-> in_meta]

RECURSIVE SensorsOf(_, _)
SensorsOf(fspecs, k) ==
    IF k > Len(fspecs) THEN EmptyDict
    ELSE LET rest == SensorsOf(fspecs, k + 1)
         IN  IF fspecs[k].in_meta /\ Len(fspecs[k].parts) >= 2
             THEN DictSet(rest, fspecs[k].parts, fspecs[k].declared)
             ELSE rest

\* an acquisition folder; status says what is wrong with metadata.json
Folder(status, fspecs) ==
    [meta |-> [exists |-> status # "missing",
               has_session_info |-> status \notin {"missing", "no_session_info"},
               has_sensors |-> status \notin {"missing", "no_sensors"},
               condition |-> "cond",
               fault_detail |-> "fault",
               sensors |-> SensorsOf(fspecs, 1)],
     files |-> [k \in 1..Len(fspecs) |->
                  [parts |-> fspecs[k].parts, readable |-> fspecs[k].readable,
                   df |-> fspecs[k].df]]]

\* sequences of at most n files with pairwise different names
FileSeqs(S, n) ==
    { fs \in UNION { [1..k -> S] : k \in 0..n } :
        \A a, b \in 1..Len(fs) : a # b => fs[a].parts # fs[b].parts }

StreamFrame(times, xs) ==
    [columns |-> <<TimeCol, AxisCol>>, values |-> <<times, xs>>]

\* A_ACC at 2 Hz, five samples: window 2, two (equal) rows and a tail
GoodA == FileSpec(<<"A", "ACC">>, TRUE,
                  StreamFrame(<<0, 1, 2, 3, 4>>, <<1, 0, 1, 0, 1>>),
                  <<2, 1>>, TRUE)
\* B_ACC at 0.5 Hz, one sample: window 1, one row
GoodB == FileSpec(<<"B", "ACC">>, TRUE, StreamFrame(<<0>>, <<1>>),
                  <<1, 2>>, TRUE)
\* A_GYRO at 3 Hz, three samples: window 3, one row
GoodG == FileSpec(<<"A", "GYRO">>, TRUE,
                  StreamFrame(<<0, 1, 2>>, <<0, 1, 1>>), <<3, 1>>, TRUE)
\* A_ACC that pd.read_parquet cannot read
UnreadableA == FileSpec(<<"A", "ACC">>, FALSE,
                        StreamFrame(<<>>, <<>>), <<2, 1>>, TRUE)

CorpusFiles == {GoodA, GoodB, UnreadableA}
MetaProblems == {"missing", "no_session_info", "no_sensors"}

CorpusFolders ==
    { Folder("ok", fs) : fs \in FileSeqs(CorpusFiles, MaxFiles) }
        \cup { Folder(st, <<GoodA>>) : st \in MetaProblems }

Labels == {"OK", "KO"}
AcqNames == {"sess1", "sess2"}
LabelOrders == { <<"OK", "KO">>, <<"KO", "OK">> }

\* at most MaxAcq acquisition folders, no two at the same path
Placements ==
    { ps \in UNION { [1..k -> [label : Labels, name : AcqNames,
                               folder : CorpusFolders]] : k \in 0..MaxAcq } :
        \A a, b \in 1..Len(ps) :
            a # b => <<ps[a].label, ps[a].name>> # <<ps[b].label, ps[b].name>> }

LabelDir(label, ps) ==
    LET Mine(p) == p.label = label
        mine == SelectSeq(ps, Mine)
    IN  [name |-> label, isdir |-> TRUE,
         entries |-> [k \in 1..Len(mine) |->
                        [name |-> mine[k].name, isdir |-> TRUE,
                         folder |-> mine[k].folder]]]

Datasets ==
    { << LabelDir(order[1], ps), LabelDir(order[2], ps) >> :
        order \in LabelOrders, ps \in Placements }

BuilderStart(dataset) ==
    /\ root = dataset
    /\ out_dir = [exists |-> FALSE, files |-> EmptyDict]
    /\ pc = "start"
    /\ tasks = <<>>
    /\ futures = <<>>
    /\ results = <<>>
    /\ final_features_by_sensor = EmptyDict
    /\ ret = "none"

Init ==
    /\ ExtractorIdle
    /\ AnalyzerIdle
    /\ \E dataset \in Datasets : BuilderStart(dataset)

Spec == Init /\ [][Next]_vars
(***************************************************************************)
(* One acquisition folder on its own: the same builder over a dataset with *)
(* a single acquisition, whose files range over more kinds of failure and  *)
(* over declared rates around the branch points of the window rule.        *)
(***************************************************************************)
\* A_GYRO, readable, but without an entry in metadata.json["sensors"]
NoMetaG == FileSpec(<<"A", "GYRO">>, TRUE,
                    StreamFrame(<<0, 1, 2>>, <<0, 1, 1>>), <<3, 1>>, FALSE)
\* B_ACC with sampling_rate_hz null and all timestamps equal
NoneFlatB == FileSpec(<<"B", "ACC">>, TRUE,
                      StreamFrame(<<0, 0, 0>>, <<1, 1, 0>>), NoneRate, TRUE)
\* B_ACC at 2 Hz with a single sample: shorter than one window
ShortB == FileSpec(<<"B", "ACC">>, TRUE, StreamFrame(<<0>>, <<1>>),
                   <<2, 1>>, TRUE)
\* C.parquet: no "_" in the name
NoUnderscore == FileSpec(<<"C">>, TRUE, StreamFrame(<<0>>, <<1>>),
                         <<1, 1>>, FALSE)

AcqFiles == {GoodA, GoodB, GoodG, UnreadableA, NoMetaG, NoneFlatB, ShortB,
             NoUnderscore}

RateWholes == (0..12) \cup {999, 1000, 1001, 1023, 1024, 1025, 2047, 2048, 2049}
RateDens == { ShiftLeft1(sh) : sh \in 0..MaxRateShift }
PositiveRates ==
    UNION { { <<w * d + f, d>> : w \in RateWholes, f \in 0..(d - 1) } :
              d \in RateDens } \ { <<0, d>> : d \in RateDens }
DeclaredRates ==
    PositiveRates \cup { <<0, 1>>, <<-1, 1>>, <<-5, 2>>, NoneRate }

RateFrames == { StreamFrame(<<0, 1, 2, 3, 4>>, <<1, 0, 1, 0, 1>>),
                StreamFrame(<<0, 1>>, <<1, 1>>),
                StreamFrame(<<0, 0, 0>>, <<1, 1, 0>>),
                StreamFrame(<<>>, <<>>) }

RateFiles == { FileSpec(<<"A", "ACC">>, TRUE, df, declared, TRUE) :
                  df \in RateFrames, declared \in DeclaredRates }

AcqFolders ==
    { Folder("ok", fs) : fs \in FileSeqs(AcqFiles, MaxFiles) }
        \cup { Folder("ok", <<f>>) : f \in RateFiles }
        \cup { Folder(st, <<GoodA>>) : st \in MetaProblems }

InitAcq ==
    /\ ExtractorIdle
    /\ AnalyzerIdle
    /\ \E label \in Labels, folder \in AcqFolders :
          BuilderStart(<< LabelDir("OK", << [label |-> label, name |-> "sess1",
                                            folder |-> folder] >>),
                          LabelDir("KO", << [label |-> label, name |-> "sess1",
                                            folder |-> folder] >>) >>)

SpecAcq == InitAcq /\ [][Next]_vars
(***************************************************************************)
(* Helpers of the properties.                                              *)
(***************************************************************************)
Finished(i) == futures[i].state = "finished"
Returned(i) == Finished(i) /\ ~futures[i].raised

\* how often row r occurs in a table
Count(table, r) == Cardinality({ n \in 1..Len(table) : table[n] = r })

RowsOf(table) == { table[n] : n \in 1..Len(table) }

\* the table of a key in a dict of tables (empty when the key is absent)
TableOf(d, key) == IF key \in DictKeys(d) THEN DictGet(d, key) ELSE EmptyFrame

RECURSIVE SumOver(_, _)
SumOver(S, f) ==
    IF S = {} THEN 0
    ELSE LET e == CHOOSE e \in S : TRUE IN f[e] + SumOver(S \ {e}, f)

\* the acquisition folders of the dataset, as a set (no order)
Acquisitions ==
    UNION { { [folder |-> root[d].entries[k].folder,
               acq_folder_path |-> <<root[d].name, root[d].entries[k].name>>,
               acq_folder_name |-> root[d].entries[k].name,
               binary_label |-> root[d].name] :
                k \in { n \in 1..Len(root[d].entries) : root[d].entries[n].isdir } } :
            d \in { n \in 1..Len(root) : root[n].isdir } }

(***************************************************************************)
(* C1.  Within one acquisition a failure on one sensor file skips only     *)
(* that file: every file that yields a non-empty table when it is the      *)
(* only file of the acquisition has its key, with that table, in the       *)
(* mapping the acquisition processor returns.                              *)
(***************************************************************************)
Alone(task, k) ==
    process_single_acquisition_folder(
        [task EXCEPT !.folder.files = << task.folder.files[k] >>])

C1_FileFailureIsolated ==
    \A i \in 1..Len(tasks) :
        Returned(i) =>
            \A k \in 1..Len(tasks[i].folder.files) :
                LET alone == Alone(tasks[i], k).local_results
                IN  alone # EmptyDict =>
                      /\ alone[1][1] \in DictKeys(futures[i].local_results)
                      /\ DictGet(futures[i].local_results, alone[1][1])
                           = alone[1][2]
(***************************************************************************)
(* C2.  A failure confined to one acquisition folder (a missing,           *)
(* unreadable or schema-incomplete metadata.json included) never leaves    *)
(* load_and_label_all_data_parallel: the run does not raise, and when it   *)
(* has returned the rows of every other acquisition are in the persisted   *)
(* tables.                                                                 *)
(***************************************************************************)
C2_AcquisitionFailureContained ==
    /\ pc # "raised"
    /\ pc = "done" =>
          \A a \in Acquisitions :
              LET r == process_single_acquisition_folder(a)
              IN  ~r.raised =>
                    \A key \in DictKeys(r.local_results) :
                        RowsOf(DictGet(r.local_results, key))
                            \subseteq RowsOf(TableOf(out_dir.files, key))

(***************************************************************************)
(* C3.  Whatever the order in which the acquisition tasks are submitted    *)
(* and complete, the table merged for each sensor key is the same multiset *)
(* of rows: each row occurs as often as it does in the tables of that key  *)
(* over the set of acquisitions of the dataset.                            *)
(***************************************************************************)
MergedTable(key) == Concat(TableOf(final_features_by_sensor, key))

ExpectedCount(key, row) ==
    SumOver(Acquisitions,
            [a \in Acquisitions |->
                Count(TableOf(process_single_acquisition_folder(a).local_results,
                              key), row)])

ExpectedKeys ==
    UNION { DictKeys(process_single_acquisition_folder(a).local_results) :
              a \in Acquisitions }

ExpectedRows(key) ==
    UNION { RowsOf(TableOf(process_single_acquisition_folder(a).local_results,
                           key)) : a \in Acquisitions }

C3_MergeOrderIndependent ==
    pc \in {"merged", "done"} =>
        /\ DictKeys(final_features_by_sensor) = ExpectedKeys
        /\ \A key \in ExpectedKeys :
              \A row \in ExpectedRows(key) \cup RowsOf(MergedTable(key)) :
                  Count(MergedTable(key), row) = ExpectedCount(key, row)

\* two acquisitions with a table of the same key were merged, the tasks
\* having completed in the reverse of their submission order
C3_Witness ==
    /\ pc = "merged"
    /\ Len(tasks) = 2
    /\ tasks[1].binary_label = "KO" /\ tasks[2].binary_label = "OK"
    /\ \E key \in DictKeys(final_features_by_sensor) :
          Len(DictGet(final_features_by_sensor, key)) = 2

(***************************************************************************)
(* C4.  For every sensor key in any task's result the persisted table      *)
(* holds every row of that key of every task exactly as often as the       *)
(* tasks returned it, so its row count is the sum of the tasks' row        *)
(* counts; two acquisitions of the same folder name under different label  *)
(* directories both contribute.                                            *)
(***************************************************************************)
ResultKeys == UNION { DictKeys(results[i]) : i \in 1..Len(results) }

C4_PersistedTableComplete ==
    pc = "done" =>
        \A key \in ResultKeys :
            /\ key \in DictKeys(out_dir.files)
            /\ Len(DictGet(out_dir.files, key))
                 = SumOver(1..Len(results),
                           [i \in 1..Len(results) |->
                               Len(TableOf(results[i], key))])
            /\ \A i \in 1..Len(results) :
                  \A row \in RowsOf(TableOf(results[i], key)) :
                      Count(DictGet(out_dir.files, key), row)
                        = SumOver(1..Len(results),
                                  [j \in 1..Len(results) |->
                                      Count(TableOf(results[j], key), row)])

\* OK/sess1 and KO/sess1 both returned rows of one key, and they are saved
C4_Witness ==
    /\ pc = "done"
    /\ Len(tasks) = 2
    /\ tasks[1].acq_folder_name = tasks[2].acq_folder_name
    /\ tasks[1].binary_label # tasks[2].binary_label
    /\ \E key \in DictKeys(results[1]) \cap DictKeys(results[2]) :
          Len(DictGet(out_dir.files, key))
            = Len(DictGet(results[1], key)) + Len(DictGet(results[2], key))

(***************************************************************************)
(* C7.  For every positive rate r the window length given to the extractor *)
(* is next_power_of_two(n(r * 1.0)) when r > 1000 and max(1, n(r * 1.23))  *)
(* otherwise, n being rounding to the nearest integer in the claim as      *)
(* stated and truncation toward zero in the claim as amended.              *)
(***************************************************************************)
RECURSIVE PowerOfTwoFrom(_, _)
PowerOfTwoFrom(p, n) == IF p >= n THEN p ELSE PowerOfTwoFrom(2 * p, n)

\* the smallest power of two >= n
next_power_of_two(n) == PowerOfTwoFrom(1, n)

Floor(q) == q[1] \div q[2]

\* Python round(): to the nearest integer, halves to the even one
Round(q) ==
    LET f == Floor(q)
        twice == 2 * (q[1] - f * q[2])
    IN  IF twice < q[2] THEN f
        ELSE IF twice > q[2] THEN f + 1
        ELSE IF f % 2 = 0 THEN f ELSE f + 1

RoundedWindow(r) ==
    IF RatGT(r, 1000) THEN next_power_of_two(Round(r))
    ELSE MaxInt(1, Round(<<r[1] * 123, r[2] * 100>>))

TruncatedWindow(r) ==
    IF RatGT(r, 1000) THEN next_power_of_two(Floor(r))
    ELSE MaxInt(1, Floor(<<r[1] * 123, r[2] * 100>>))

\* the files for which the extractor was called with a positive rate
Extracted ==
    { v \in UNION { RowsOf(futures[i].visited) : i \in 1..Len(futures) } :
        ~v.raised /\ v.odr[1] > 0 }

C7_WindowRounded == \A v \in Extracted : v.window_size = RoundedWindow(v.odr)

C7_WindowTruncated == \A v \in Extracted : v.window_size = TruncatedWindow(v.odr)

\* a fractional rate above 1000 Hz, for which rounding and truncation
\* differ, was given to the extractor with a power-of-two window
C7_Witness ==
    \E v \in Extracted :
        /\ RatGT(v.odr, 1000) /\ v.odr[2] # 1
        /\ Round(v.odr) # Floor(v.odr)
        /\ v.window_size = 1024

(***************************************************************************)
(* C8.  For every sensor file whose declared rate is null or not positive  *)
(* the window length is derived from the rate estimated from the Time      *)
(* column, sample_count / (last_timestamp - first_timestamp), never from   *)
(* the declared value.                                                     *)
(***************************************************************************)
DeclaredOf(task, k) ==
    DictGet(task.folder.meta.sensors, SensorKey(task.folder.files[k].parts))

EstimateOf(df) ==
    <<NRows(df), df.values[TimeIndex(df)][NRows(df)] - df.values[TimeIndex(df)][1]>>

C8_NonPositiveRateEstimated ==
    \A i \in 1..Len(futures) :
        \A v \in RowsOf(futures[i].visited) :
            LET file == tasks[i].folder.files[v.index]
            IN  (/\ Len(file.parts) >= 2
                 /\ SensorKey(file.parts) \in DictKeys(tasks[i].folder.meta.sensors)
                 /\ file.readable
                 /\ NRows(file.df) >= 1
                 /\ EstimateOf(file.df)[2] > 0
                 /\ \/ IsNone(DeclaredOf(tasks[i], v.index))
                    \/ DeclaredOf(tasks[i], v.index)[1] <= 0)
                => /\ ~v.raised
                   /\ v.odr = EstimateOf(file.df)
                   /\ v.window_size = window_size_of(EstimateOf(file.df))

(***************************************************************************)
(* C10.  With a totally empty corpus (no task, or only empty mappings) the *)
(* builder writes no file, does not raise, and returns to its caller an    *)
(* outcome that differs from the one of a run that persisted tables.  A    *)
(* run that persisted tables returns None (the function ends after the     *)
(* last to_csv without a return statement).                                *)
(***************************************************************************)
EmptyCorpus ==
    \A i \in 1..Len(tasks) : Returned(i) /\ futures[i].local_results = EmptyDict

C10_EmptyCorpusReported ==
    (pc \in {"done", "raised"} /\ EmptyCorpus) =>
        /\ pc = "done"
        /\ out_dir = [exists |-> FALSE, files |-> EmptyDict]
        /\ ret # "None"
(***************************************************************************)
(* get_valid_sensor_files (feature_importance.py 13-104).                  *)
(* A file name without ".csv" (a stem), a sensor name and a sensor type    *)
(* are sequences of "_"-separated pieces: "A_ACC" is <<"A", "ACC">>, the   *)
(* name "A" is <<"A">>.  None is the empty sequence.  A path is the stem   *)
(* of its file.                                                            *)
(***************************************************************************)
None == <<>>

\* all_files = glob.glob(os.path.join(data_folder, "*.csv")), in glob order
all_files_keyed(data_folder) ==
    IF data_folder.exists
    THEN LET stems == [k \in 1..Len(data_folder.files) |->
                          data_folder.files[k].stem]
             HasKey(st) == Len(st) >= 2
         IN  SelectSeq(stems, HasKey)
    ELSE <<>>
all_files(data_folder) ==
    IF data_folder.exists
    THEN [k \in 1..Len(data_folder.files) |-> data_folder.files[k].stem]
    ELSE <<>>

\* lines 38-49: the stems that enter available_map ("_" in filename), with
\* s_name, s_type = filename.split("_", 1)
Indexed(data_folder) ==
    { st \in { all_files(data_folder)[k] : k \in 1..Len(all_files(data_folder)) } :
        Len(st) >= 2 }
s_name(stem) == << stem[1] >>
s_type(stem) == Tail(stem)

\* lines 68-78, request (None, type): every sensor's table of that type
by_type_first(avail, req_type) ==
    LET found == { st \in avail : s_type(st) = req_type }
    IN  [ok |-> found # {},
         paths |-> IF found = {} THEN {} ELSE { CHOOSE st \in found : TRUE }]
by_type(avail, req_type) ==
    LET found == { st \in avail : s_type(st) = req_type }
    IN  [ok |-> found # {}, paths |-> found]

\* lines 88-90, request (name, None) for a name that is in available_map
by_name_first(avail, req_name) ==
    LET own == { st \in avail : s_name(st) = req_name }
    IN  [ok |-> TRUE, paths |-> { CHOOSE st \in own : TRUE }]
by_name(avail, req_name) ==
    [ok |-> TRUE, paths |-> { st \in avail : s_name(st) = req_name }]

\* lines 93-97, request (name, type) for a name that is in available_map
by_key_or_name(avail, req_name, req_type) ==
    LET exact == { st \in avail : /\ s_name(st) = req_name
                                  /\ s_type(st) = req_type }
    IN  IF exact # {} THEN [ok |-> TRUE, paths |-> exact]
        ELSE [ok |-> TRUE, paths |-> { st \in avail : s_name(st) = req_name }]
by_key(avail, req_name, req_type) ==
    LET exact == { st \in avail : /\ s_name(st) = req_name
                                  /\ s_type(st) = req_type }
    IN  [ok |-> exact # {}, paths |-> exact]

\* lines 56-97 for one request: the paths it appends and whether it leaves
\* all_correct alone
resolve_request(data_folder, req) ==
    LET req_name == req[1]
        req_type == req[2]
        avail == Indexed(data_folder)
    IN  IF req_name = None
        THEN IF req_type = None
             THEN [ok |-> TRUE, paths |-> avail]
             ELSE by_type(avail, req_type)
        ELSE IF req_name \notin { s_name(st) : st \in avail }
             THEN [ok |-> FALSE, paths |-> {}]
             ELSE IF req_type = None
                  THEN by_name(avail, req_name)
                  ELSE by_key(avail, req_name, req_type)

\* the function: (all_correct, valid_paths).  valid_paths is all_files for
\* an empty request list and list(set(...)) otherwise, given here as a set;
\* in_glob_order says which of the two it is.
get_valid_sensor_files(data_folder, target_sensors) ==
    IF target_sensors = <<>>
    THEN [all_correct |-> TRUE,
          valid_paths |-> { all_files(data_folder)[k] :
                              k \in 1..Len(all_files(data_folder)) },
          in_glob_order |-> TRUE]
    ELSE [all_correct |->
              \A k \in 1..Len(target_sensors) :
                  resolve_request(data_folder, target_sensors[k]).ok,
          valid_paths |->
              UNION { resolve_request(data_folder, target_sensors[k]).paths :
                        k \in 1..Len(target_sensors) },
          in_glob_order |-> FALSE]

(***************************************************************************)
(* run_analysis (feature_importance.py 107-256).                           *)
(* A feature table is [rows, feats, bad, acc, importances]: the number of  *)
(* rows, the numeric feature columns left after dropping ignore_cols, the  *)
(* number of rows with a NaN or infinite value, and what scikit-learn      *)
(* returns for the table: the mean cross-validated accuracy (in quarters)  *)
(* and the importance of each feature column (in quarters).  A global      *)
(* score is their product, in sixteenths.                                  *)
(***************************************************************************)
ALGORITHMS == {"rf", "lr", "dt"}
TopN == 20
CvFolds == 3
BadRowPercent == 5

FileOf(data_folder, stem) ==
    data_folder.files[CHOOSE k \in 1..Len(data_folder.files) :
                          data_folder.files[k].stem = stem]

\* lines 138-144: the rows left in df after the bad-row policy.  X.size is
\* rows * columns; with X.size = 0 the quotient is NaN and the test fails.
rows_after_cleaning(t) ==
    IF t.rows * Len(t.feats) > 0
         /\ t.bad * 100 <= BadRowPercent * (t.rows * Len(t.feats))
    THEN t.rows - t.bad
    ELSE t.rows

\* line 144: the number of rows whose missing or infinite values were
\* replaced by 0
zero_filled(t) ==
    IF t.rows * Len(t.feats) > 0
         /\ t.bad * 100 <= BadRowPercent * (t.rows * Len(t.feats))
    THEN 0
    ELSE t.bad

\* lines 124-146 for one file: its name, the rows left in X and the rows
\* that were zero-filled
read_entry(data_folder, stem) ==
    [stem |-> stem,
     rows |-> rows_after_cleaning(FileOf(data_folder, stem).table),
     filled |-> zero_filled(FileOf(data_folder, stem).table)]

\* line 149: the file is skipped
skipped(t) == Len(t.feats) = 0 \/ rows_after_cleaning(t) = 0

\* lines 156-203: with a tag outside rf/dt/lr no branch binds "model", and
\* cross_val_score(model, ...) raises UnboundLocalError
fit_raises(t, algorithm) == ~skipped(t) /\ algorithm \notin ALGORITHMS

\* lines 212-220: the records one file appends to global_ranking
records_of_unweighted(stem, t) ==
    IF skipped(t) THEN <<>>
    ELSE [c \in 1..Len(t.feats) |->
            [Sensor |-> stem,
             Feature |-> t.feats[c],
             Local_Importance |-> t.importances[c],
             Sensor_Accuracy |-> t.acc,
             Global_Score |-> t.importances[c]]]
records_of(stem, t) ==
    IF skipped(t) THEN <<>>
    ELSE [c \in 1..Len(t.feats) |->
            [Sensor |-> stem,
             Feature |-> t.feats[c],
             Local_Importance |-> t.importances[c],
             Sensor_Accuracy |-> t.acc,
             Global_Score |-> t.importances[c] * t.acc]]

RECURSIVE ranking_of(_, _, _)
ranking_of(data_folder, csv_files, k) ==
    IF k > Len(csv_files) THEN <<>>
    ELSE records_of(csv_files[k], FileOf(data_folder, csv_files[k]).table)
            \o ranking_of(data_folder, csv_files, k + 1)

\* the orders in which sort_values(ascending=False) may leave the records
\* idx of seq (ties in any order); val[i] is the sort key of seq[i]
RECURSIVE SortedDesc(_, _, _)
SortedDesc(seq, idx, val) ==
    IF idx = {} THEN { <<>> }
    ELSE UNION { { << seq[i] >> \o rest : rest \in SortedDesc(seq, idx \ {i}, val) } :
                   i \in { m \in idx : \A n \in idx : val[n] <= val[m] } }

Last_n(seq, n) ==
    SubSeq(seq, IF Len(seq) < n THEN 1 ELSE Len(seq) - n + 1, Len(seq))
Head_n(seq, n) == SubSeq(seq, 1, IF Len(seq) < n THEN Len(seq) ELSE n)

\* line 234: groupby('Sensor')['Sensor_Accuracy'].max()
sensor_max(ranking) ==
    LET sensors == { ranking[k].Sensor : k \in 1..Len(ranking) }
        best(sn) == CHOOSE a \in { ranking[k].Sensor_Accuracy :
                                     k \in { n \in 1..Len(ranking) : ranking[n].Sensor = sn } } :
                      \A k \in 1..Len(ranking) :
                          ranking[k].Sensor = sn => ranking[k].Sensor_Accuracy <= a
    IN  { [Sensor |-> sn, Sensor_Accuracy |-> best(sn)] : sn \in sensors }

SetToSeqs(S) ==
    { q \in [1..Cardinality(S) -> S] : \A a, b \in 1..Cardinality(S) : a # b => q[a] # q[b] }

Returned_None == [kind |-> "None", is_valid |-> FALSE,
                  sensor_scores |-> <<>>, top_features |-> <<>>]
Returned_Invalid == [kind |-> "tuple", is_valid |-> FALSE,
                     sensor_scores |-> <<>>, top_features |-> <<>>]
Raised == [kind |-> "raised", is_valid |-> FALSE,
           sensor_scores |-> <<>>, top_features |-> <<>>]

\* the files given to pd.read_csv (line 127) when run_analysis iterates
\* csv_files in this order: none after the return of line 121, and none
\* past the file whose fit raises
RECURSIVE read_until_raise(_, _, _, _)
read_until_raise(data_folder, algorithm, csv_files, k) ==
    IF k > Len(csv_files) THEN <<>>
    ELSE IF fit_raises(FileOf(data_folder, csv_files[k]).table, algorithm)
         THEN << read_entry(data_folder, csv_files[k]) >>
         ELSE << read_entry(data_folder, csv_files[k]) >>
                \o read_until_raise(data_folder, algorithm, csv_files, k + 1)

loaded_by_partial(data_folder, algorithm, target_sensors, csv_files) ==
    read_until_raise(data_folder, algorithm, csv_files, 1)
loaded_by(data_folder, algorithm, target_sensors, csv_files) ==
    IF ~get_valid_sensor_files(data_folder, target_sensors).all_correct
    THEN <<>>
    ELSE read_until_raise(data_folder, algorithm, csv_files, 1)

\* the ways run_analysis can end when it iterates csv_files in this order
run_analysis(data_folder, algorithm, target_sensors, csv_files) ==
    LET r == get_valid_sensor_files(data_folder, target_sensors)
        global_ranking == ranking_of(data_folder, csv_files, 1)
        Score(seq) == [k \in 1..Len(seq) |-> seq[k].Global_Score]
        Acc(seq) == [k \in 1..Len(seq) |-> seq[k].Sensor_Accuracy]
    IN  IF ~r.all_correct THEN { Returned_Invalid }                 \* line 121
        ELSE IF \E k \in 1..Len(csv_files) :
                   fit_raises(FileOf(data_folder, csv_files[k]).table, algorithm)
        THEN { Raised }
        ELSE IF global_ranking = <<>> THEN { Returned_None }        \* line 225
        ELSE { [kind |-> "tuple", is_valid |-> TRUE,
                sensor_scores |-> ss,
                top_features |-> Head_n(results_df, TopN)] :
                 results_df \in SortedDesc(global_ranking,
                                           1..Len(global_ranking),
                                           Score(global_ranking)),
                 ss \in UNION { SortedDesc(q, 1..Len(q), Acc(q)) :
                                  q \in SetToSeqs(sensor_max(global_ranking)) } }

\* lines 52-97: valid_paths before line 102, one request after the other;
\* what a request appends is listed in glob order
RECURSIVE appended(_, _, _)
appended(data_folder, target_sensors, k) ==
    IF k > Len(target_sensors) THEN <<>>
    ELSE LET InRequest(st) ==
                 st \in resolve_request(data_folder, target_sensors[k]).paths
         IN  SelectSeq(all_files(data_folder), InRequest)
                \o appended(data_folder, target_sensors, k + 1)

\* line 102: list(set(valid_paths)), the set's elements in any order
dedupe_none(paths) == { paths }
dedupe(paths) == SetToSeqs({ paths[k] : k \in 1..Len(paths) })

\* the lists get_valid_sensor_files may return as valid_paths, which is
\* the order in which the for loop of line 123 visits the files
iteration_orders(data_folder, target_sensors) ==
    IF target_sensors = <<>> THEN { all_files(data_folder) }
    ELSE dedupe(appended(data_folder, target_sensors, 1))

\* run_analysis runs to its end
RunAnalysis ==
    /\ a_pc = "call"
    /\ \E csv_files \in iteration_orders(a_dir, a_targets) :
          /\ \E out \in run_analysis(a_dir, a_alg, a_targets, csv_files) :
                a_ret' = out
          /\ a_loaded' = loaded_by(a_dir, a_alg, a_targets, csv_files)
          /\ a_resolved' =
                [all_correct |->
                     get_valid_sensor_files(a_dir, a_targets).all_correct,
                 valid_paths |-> csv_files]
    /\ a_pc' = "returned"
    /\ UNCHANGED <<a_dir, a_alg, a_targets, a_caller>>
    /\ UNCHANGED cvars
    /\ UNCHANGED xvars
    /\ UNCHANGED bvars

\* core.py 178-192: "is_valid, results = run_analysis(...)" and the branch
Unpack ==
    /\ a_pc = "returned"
    /\ a_alg \in ALGORITHMS                                   \* line 167
    /\ a_caller' = CASE a_ret.kind = "None" -> "TypeError"
                     [] a_ret.kind = "tuple" /\ a_ret.is_valid -> "valid"
                     [] a_ret.kind = "tuple" /\ ~a_ret.is_valid -> "INVALID_SENSORS"
    /\ a_pc' = "unpacked"
    /\ UNCHANGED <<a_dir, a_alg, a_targets, a_ret, a_loaded, a_resolved>>
    /\ UNCHANGED cvars
    /\ UNCHANGED xvars
    /\ UNCHANGED bvars

NextAnalysis == RunAnalysis \/ Unpack

(***************************************************************************)
(* Feature directories and requests given to run_analysis.                 *)
(***************************************************************************)
NoFeatures == [rows |-> 6, feats |-> <<>>, bad |-> 0, acc |-> 0,
               importances |-> <<>>]

TableA_ACC == [rows |-> 6, feats |-> <<"x_mean", "x_std">>, bad |-> 0,
               acc |-> 3, importances |-> <<0, 4>>]
TableA_GYRO == [rows |-> 6, feats |-> <<"x_mean", "x_std">>, bad |-> 0,
                acc |-> 4, importances |-> <<0, 4>>]
TableB_ACC == [rows |-> 6, feats |-> <<"x_mean">>, bad |-> 0,
               acc |-> 3, importances |-> <<4>>]
\* a table in a file whose name has no "_": notes.csv
TableNotes == [rows |-> 6, feats |-> <<"x_mean">>, bad |-> 0,
               acc |-> 2, importances |-> <<4>>]

CsvChoices(stem, table) ==
    { <<>>, << [stem |-> stem, table |-> table] >>,
            << [stem |-> stem, table |-> NoFeatures] >> }

FeatureDirs ==
    { [exists |-> FALSE, files |-> <<>>] }
        \cup { [exists |-> TRUE, files |-> a \o g \o b \o n] :
                 a \in CsvChoices(<<"A", "ACC">>, TableA_ACC),
                 g \in CsvChoices(<<"A", "GYRO">>, TableA_GYRO),
                 b \in CsvChoices(<<"B", "ACC">>, TableB_ACC),
                 n \in { <<>>, << [stem |-> <<"notes">>,
                                   table |-> TableNotes] >> } }

Requests == { <<n, t>> : n \in { None, <<"A">>, <<"C">> },
                         t \in { None, <<"ACC">>, <<"GYRO">> } }
TargetLists == UNION { [1..k -> Requests] : k \in 0..MaxReqs }

InitAnalysis ==
    /\ ExtractorIdle
    /\ BuilderIdle
    /\ a_dir \in FeatureDirs
    /\ a_alg \in ALGORITHMS \cup {"svm"}
    /\ a_targets \in TargetLists
    /\ a_pc = "call"
    /\ a_ret = [kind |-> "none", is_valid |-> FALSE,
                sensor_scores |-> <<>>, top_features |-> <<>>]
    /\ a_caller = "waiting"
    /\ a_loaded = <<>>
    /\ a_resolved = NotResolved
    /\ ChatIdle

SpecAnalysis == InitAnalysis /\ [][NextAnalysis]_vars

(***************************************************************************)
(* C9.  Whenever run_analysis ends with no resolvable file or with an      *)
(* empty ranking it returns a pair whose first element is False and whose  *)
(* second carries no results, and the caller's unpacking of the pair does  *)
(* not raise.                                                              *)
(***************************************************************************)
NothingToRank ==
    \A st \in get_valid_sensor_files(a_dir, a_targets).valid_paths :
        skipped(FileOf(a_dir, st).table)

C9_NoResultsIsInvalidPair ==
    (a_pc \in {"returned", "unpacked"} /\ a_ret.kind # "raised" /\ NothingToRank)
        => /\ a_ret = Returned_Invalid
           /\ a_caller # "TypeError"
(***************************************************************************)
(* What a request asks for, stated on the table keys of the directory: a   *)
(* key NAME_TYPE matches a request when each element the request gives is  *)
(* the key's.  A request is unsatisfiable when it gives an element and no  *)
(* key matches it.                                                         *)
(***************************************************************************)
Matches(stem, req) ==
    /\ Len(stem) >= 2
    /\ req[1] # None => << stem[1] >> = req[1]
    /\ req[2] # None => Tail(stem) = req[2]

Matching(data_folder, req) ==
    { all_files(data_folder)[k] :
        k \in { n \in 1..Len(all_files(data_folder)) :
                  Matches(all_files(data_folder)[n], req) } }

Unsatisfiable(data_folder, req) ==
    /\ req # << None, None >>
    /\ Matching(data_folder, req) = {}

AnalysisEnded == a_pc \in {"returned", "unpacked"}

(***************************************************************************)
(* C11.  When at least one request of target_sensors is unsatisfiable,     *)
(* run_analysis returns (False, ()) and has read no feature table, also    *)
(* when other requests of the batch resolved to existing tables.           *)
(***************************************************************************)
C11_UnresolvedBatchRefused ==
    (AnalysisEnded
        /\ \E k \in 1..Len(a_targets) : Unsatisfiable(a_dir, a_targets[k]))
        => /\ a_ret = Returned_Invalid
           /\ a_loaded = <<>>

\* a batch with one unsatisfiable request and one that resolved to a table
\* with features has been refused
C11_Witness ==
    /\ AnalysisEnded
    /\ \E k \in 1..Len(a_targets) : Unsatisfiable(a_dir, a_targets[k])
    /\ \E k \in 1..Len(a_targets) :
          \E st \in Matching(a_dir, a_targets[k]) :
              ~skipped(FileOf(a_dir, st).table)
    /\ a_ret = Returned_Invalid
(***************************************************************************)
(* C12.  Called with an algorithm tag outside rf, dt, lr, run_analysis     *)
(* ends by returning a result (it does not raise), has read no feature     *)
(* table, does not succeed with another algorithm, and what it returns is  *)
(* not the value it returns when there is nothing to rank.                 *)
(***************************************************************************)
C12_UnsupportedTagReported ==
    (AnalysisEnded /\ a_alg \notin ALGORITHMS)
        => /\ a_ret.kind = "tuple"
           /\ ~a_ret.is_valid
           /\ a_loaded = <<>>
(***************************************************************************)
(* The dispatcher, generate_ollma_response (core.py 159-192, 243-244),     *)
(* serving a request the router classified feature_importance_analysis.    *)
(***************************************************************************)
\* config.py 19-23: ALGORITHMS.keys()
ALGORITHMS_keys == {"rf", "lr", "dt"}

\* lines 160-168: the flag the checks set, "" when the request passes them
route_flag_unchecked(dataset, is_vague, alg) ==
    IF ~dataset THEN "MISSING_DATASET"
    ELSE IF is_vague THEN "VAGUE"
    ELSE ""
route_flag(dataset, is_vague, alg) ==
    IF ~dataset THEN "MISSING_DATASET"
    ELSE IF is_vague THEN "VAGUE"
    ELSE IF alg = "unsupported" \/ alg \notin ALGORITHMS_keys
         THEN "INVALID_ALGORITHM"
    ELSE ""

Route ==
    /\ c_pc = "route"
    /\ c_category = "feature_importance_analysis"
    /\ LET flag == route_flag(c_dataset, c_vague, a_alg)
       IN  IF flag # ""
           THEN c_flag' = flag /\ c_pc' = "done"
           ELSE c_flag' = c_flag /\ c_pc' = "heavy"
    /\ UNCHANGED <<c_dataset, c_vague, c_extracted, c_category, c_tool, c_yields>>
    /\ UNCHANGED <<a_dir, a_alg, a_targets, a_pc, a_ret, a_caller, a_loaded, a_resolved>>
    /\ UNCHANGED xvars
    /\ UNCHANGED bvars

\* what load_and_label_all_data_parallel can leave in the feature
\* directory: nothing new, or tables that all have feature columns
ExtractionOutcomes(data_folder) ==
    { data_folder }
        \cup { d \in FeatureDirs :
                 /\ d.exists
                 /\ d.files # <<>>
                 /\ \A k \in 1..Len(d.files) :
                        /\ d.files[k].table # NoFeatures
                        /\ Len(d.files[k].stem) >= 2 }

\* lines 172-178: extract the features if the directory is missing or
\* empty, then call run_analysis; an exception of the extraction leaves
\* the dispatcher
Prepare ==
    /\ c_pc = "heavy"
    /\ IF ~a_dir.exists \/ Len(a_dir.files) < 1
       THEN /\ c_extracted' = TRUE
            /\ \/ /\ a_dir' \in ExtractionOutcomes(a_dir)
                  /\ c_pc' = "analysis"
                  /\ a_pc' = "call"
               \/ /\ c_pc' = "raised"
                  /\ UNCHANGED <<a_dir, a_pc>>
       ELSE /\ c_pc' = "analysis"
            /\ a_pc' = "call"
            /\ UNCHANGED <<a_dir, c_extracted>>
    /\ UNCHANGED <<c_dataset, c_vague, c_flag, c_category, c_tool, c_yields>>
    /\ UNCHANGED <<a_alg, a_targets, a_ret, a_caller, a_loaded, a_resolved>>
    /\ UNCHANGED xvars
    /\ UNCHANGED bvars

\* lines 180-192 and 243-244, after the unpacking statement
Finish ==
    /\ c_pc = "analysis"
    /\ a_pc = "unpacked"
    /\ CASE a_caller = "TypeError" -> c_pc' = "raised" /\ c_flag' = c_flag
         [] a_caller = "valid" ->
                c_pc' = "done" /\ c_flag' = "DATA_ANALYSIS_SUCCESS"
         [] a_caller = "INVALID_SENSORS" ->
                c_pc' = "done" /\ c_flag' = "INVALID_SENSORS"
    /\ c_tool' = IF a_caller = "valid" THEN "output" ELSE "no_output"
    /\ UNCHANGED <<c_dataset, c_vague, c_extracted, c_category, c_yields>>
    /\ UNCHANGED <<a_dir, a_alg, a_targets, a_pc, a_ret, a_caller, a_loaded, a_resolved>>
    /\ UNCHANGED xvars
    /\ UNCHANGED bvars

NextChat == Route \/ Prepare \/ RunAnalysis \/ Unpack \/ Finish

\* the requests the router hands over
ChatTags == ALGORITHMS_keys \cup {"svm", "unsupported"}
ChatTargets == { t \in TargetLists : Len(t) <= 1 }

InitChat ==
    /\ ExtractorIdle
    /\ BuilderIdle
    /\ a_dir \in FeatureDirs
    /\ a_alg \in ChatTags
    /\ a_targets \in ChatTargets
    /\ a_pc = "idle"
    /\ a_ret = [kind |-> "none", is_valid |-> FALSE,
                sensor_scores |-> <<>>, top_features |-> <<>>]
    /\ a_caller = "waiting"
    /\ a_loaded = <<>>
    /\ a_resolved = NotResolved
    /\ c_dataset \in BOOLEAN
    /\ c_vague \in BOOLEAN
    /\ c_pc = "route"
    /\ c_extracted = FALSE
    /\ c_flag = ""
    /\ c_category = "feature_importance_analysis"
    /\ c_tool = "none"
    /\ c_yields = <<>>

SpecChat == InitChat /\ [][NextChat]_vars

(***************************************************************************)
(* C13.  A feature_importance_analysis request with a dataset loaded,      *)
(* is_vague false and an algorithm tag other than rf, lr, dt: at every     *)
(* point of its handling neither load_and_label_all_data_parallel nor      *)
(* run_analysis has been invoked, and it ends with the system flag         *)
(* INVALID_ALGORITHM.                                                      *)
(***************************************************************************)
BadTagRequest ==
    /\ c_pc # "idle"
    /\ c_dataset
    /\ ~c_vague
    /\ a_alg \notin {"rf", "lr", "dt"}

C13_InvalidAlgorithmRejected ==
    BadTagRequest
        => /\ ~c_extracted
           /\ a_pc = "idle"
           /\ a_loaded = <<>>
           /\ c_pc \in {"route", "done"}
           /\ c_pc = "done" => c_flag = "INVALID_ALGORITHM"

\* such a request has ended, on a missing feature directory (where a
\* supported tag would have started the extraction)
C13_Witness ==
    /\ BadTagRequest
    /\ a_alg = "svm"
    /\ ~a_dir.exists
    /\ c_pc = "done"
    /\ c_flag = "INVALID_ALGORITHM"
(***************************************************************************)
(* C14.  For a batch of requests given to get_valid_sensor_files, the      *)
(* boolean returned is False exactly when some request is unsatisfiable;   *)
(* the paths returned are the union of the tables the requests match (an   *)
(* unsatisfiable request matches none), also when the boolean is False,    *)
(* and no path is listed twice.                                            *)
(***************************************************************************)
Resolved == a_resolved.valid_paths
ResolvedSet == { Resolved[k] : k \in 1..Len(Resolved) }
NoDuplicates(seq) ==
    \A i, j \in 1..Len(seq) : i # j => seq[i] # seq[j]

C14_BatchResolution ==
    (AnalysisEnded /\ a_targets # <<>>)
        => /\ a_resolved.all_correct
                = ~(\E k \in 1..Len(a_targets) :
                        Unsatisfiable(a_dir, a_targets[k]))
           /\ ResolvedSet
                = UNION { Matching(a_dir, a_targets[k]) :
                            k \in 1..Len(a_targets) }
           /\ NoDuplicates(Resolved)

\* a batch of one unsatisfiable request and one request matching two
\* tables has been resolved: the boolean is False and both are returned
C14_Witness ==
    /\ AnalysisEnded
    /\ ~a_resolved.all_correct
    /\ \E k \in 1..Len(a_targets) : Unsatisfiable(a_dir, a_targets[k])
    /\ Len(Resolved) = 2
(***************************************************************************)
(* C15.  A request (None, type) resolves to exactly the tables whose key   *)
(* has that type, whatever the sensor name, and is unsatisfiable exactly   *)
(* when no table has that type.  On A_ACC.csv, A_GYRO.csv, B_ACC.csv the   *)
(* request (None, "ACC") gives A_ACC.csv and B_ACC.csv and True.           *)
(***************************************************************************)
KeysOf(data_folder) ==
    { st \in { all_files(data_folder)[k] :
                 k \in 1..Len(all_files(data_folder)) } : Len(st) >= 2 }

OnlyRequest(req) == AnalysisEnded /\ a_targets = << req >>

ThreeTables ==
    { a_dir.files[k].stem : k \in 1..Len(a_dir.files) }
        = { <<"A", "ACC">>, <<"A", "GYRO">>, <<"B", "ACC">> }

C15_TypeOnlyRequest ==
    /\ \A req \in Requests :
          (OnlyRequest(req) /\ req[1] = None /\ req[2] # None)
              => /\ ResolvedSet
                      = { st \in KeysOf(a_dir) : Tail(st) = req[2] }
                 /\ a_resolved.all_correct
                      = (\E st \in KeysOf(a_dir) : Tail(st) = req[2])
    /\ \A k \in 1..Len(a_targets) :
          (AnalysisEnded /\ a_targets[k][1] = None /\ a_targets[k][2] # None)
              => /\ { st \in KeysOf(a_dir) : Tail(st) = a_targets[k][2] }
                      \subseteq ResolvedSet
                 /\ a_resolved.all_correct
                      => \E st \in KeysOf(a_dir) : Tail(st) = a_targets[k][2]

C15_Witness ==
    /\ OnlyRequest(<< None, <<"ACC">> >>)
    /\ ThreeTables
    /\ ResolvedSet = { <<"A", "ACC">>, <<"B", "ACC">> }
    /\ a_resolved.all_correct
(***************************************************************************)
(* C16.  A request (name, None) resolves to exactly the tables of that     *)
(* sensor name, of every type, and is unsatisfiable exactly when the name  *)
(* has no table; an unknown name contributes no path.  On A_ACC.csv,       *)
(* A_GYRO.csv, B_ACC.csv the request ("C", None) gives False and no path.  *)
(***************************************************************************)
C16_NameOnlyRequest ==
    /\ \A req \in Requests :
          (OnlyRequest(req) /\ req[1] # None /\ req[2] = None)
              => /\ ResolvedSet
                      = { st \in KeysOf(a_dir) : << Head(st) >> = req[1] }
                 /\ a_resolved.all_correct
                      = (\E st \in KeysOf(a_dir) : << Head(st) >> = req[1])
    /\ \A k \in 1..Len(a_targets) :
          (AnalysisEnded /\ a_targets[k][1] # None /\ a_targets[k][2] = None)
              => /\ { st \in KeysOf(a_dir) : << Head(st) >> = a_targets[k][1] }
                      \subseteq ResolvedSet
                 /\ a_resolved.all_correct
                      => \E st \in KeysOf(a_dir) :
                             << Head(st) >> = a_targets[k][1]

C16_Witness ==
    /\ OnlyRequest(<< <<"C">>, None >>)
    /\ ThreeTables
    /\ Resolved = <<>>
    /\ ~a_resolved.all_correct

(***************************************************************************)
(* C17.  A request (name, type) resolves to the one table whose key is     *)
(* name_type and to nothing else, and is unsatisfiable exactly when that   *)
(* key has no table, also when the name has tables of other types.         *)
(***************************************************************************)
C17_ExactRequest ==
    /\ \A req \in Requests :
          (OnlyRequest(req) /\ req[1] # None /\ req[2] # None)
              => /\ ResolvedSet = { st \in KeysOf(a_dir) : st = req[1] \o req[2] }
                 /\ Len(Resolved) <= 1
                 /\ a_resolved.all_correct = (req[1] \o req[2] \in KeysOf(a_dir))
    /\ \A k \in 1..Len(a_targets) :
          (AnalysisEnded /\ a_targets[k][1] # None /\ a_targets[k][2] # None)
              => /\ a_targets[k][1] \o a_targets[k][2] \in KeysOf(a_dir)
                      => a_targets[k][1] \o a_targets[k][2] \in ResolvedSet
                 /\ a_resolved.all_correct
                      => a_targets[k][1] \o a_targets[k][2] \in KeysOf(a_dir)

\* the name has tables of another type only: nothing is resolved
C17_Witness ==
    /\ OnlyRequest(<< <<"A">>, <<"GYRO">> >>)
    /\ <<"A", "ACC">> \in KeysOf(a_dir)
    /\ <<"A", "GYRO">> \notin KeysOf(a_dir)
    /\ Resolved = <<>>
    /\ ~a_resolved.all_correct
(***************************************************************************)
(* C18.  An empty request list always succeeds: get_valid_sensor_files     *)
(* returns True and every *.csv file of the feature directory, each once,  *)
(* whatever the directory holds, also when it is empty or missing.         *)
(***************************************************************************)
C18_EmptyListIsGlobal ==
    (AnalysisEnded /\ a_targets = <<>>)
        => /\ a_resolved.all_correct
           /\ ResolvedSet = { a_dir.files[k].stem : k \in 1..Len(a_dir.files) }
           /\ Len(Resolved) = Len(a_dir.files)

\* the global request on a directory holding a sensor table and a file
\* that is no NAME_TYPE table
C18_Witness ==
    /\ AnalysisEnded
    /\ a_targets = <<>>
    /\ Resolved = << <<"A", "ACC">>, <<"notes">> >>
    /\ a_resolved.all_correct
(***************************************************************************)
(* Feature tables with missing or infinite values: one table A_ACC.csv of  *)
(* CvFolds..MaxRows rows, up to MaxFeats feature columns and up to MaxBad  *)
(* bad rows (a table without feature columns has no bad row), analysed     *)
(* with every supported algorithm.                                         *)
(***************************************************************************)
FeatNames == <<"x_mean", "x_std", "x_peak">>

DirtyTables ==
    { [rows |-> r, feats |-> SubSeq(FeatNames, 1, f), bad |-> b, acc |-> 3,
       importances |-> [c \in 1..f |-> 1]] :
        r \in CvFolds..MaxRows, f \in 0..MaxFeats, b \in 0..MaxBad }
    \ { t \in [rows : CvFolds..MaxRows,
               feats : { <<>> },
               bad : 1..MaxBad,
               acc : {3},
               importances : { <<>> }] : TRUE }

InitClean ==
    /\ ExtractorIdle
    /\ BuilderIdle
    /\ \E t \in DirtyTables :
          a_dir = [exists |-> TRUE,
                   files |-> << [stem |-> <<"A", "ACC">>, table |-> t] >>]
    /\ a_alg \in ALGORITHMS
    /\ a_targets = <<>>
    /\ a_pc = "call"
    /\ a_ret = [kind |-> "none", is_valid |-> FALSE,
                sensor_scores |-> <<>>, top_features |-> <<>>]
    /\ a_caller = "waiting"
    /\ a_loaded = <<>>
    /\ a_resolved = NotResolved
    /\ ChatIdle

SpecClean == InitClean /\ [][NextAnalysis]_vars

(***************************************************************************)
(* C19.  For a feature table of R rows of which B hold a missing or        *)
(* infinite value, run_analysis drops the bad rows exactly when            *)
(* 100*B <= 5*R, whatever the number of feature columns; otherwise it      *)
(* drops no row and replaces the missing and infinite values by 0.         *)
(***************************************************************************)
C19_FivePercentOfRows ==
    \A k \in 1..Len(a_loaded) :
        LET t == FileOf(a_dir, a_loaded[k].stem).table
        IN  IF 100 * t.bad <= 5 * t.rows
            THEN a_loaded[k].rows = t.rows - t.bad /\ a_loaded[k].filled = 0
            ELSE a_loaded[k].rows = t.rows /\ a_loaded[k].filled = t.bad
(***************************************************************************)
(* C20.  Of two importance records with the same local importance and      *)
(* different sensor accuracy, the one with the higher accuracy has the     *)
(* strictly higher global score, for every local importance the analyzer   *)
(* produces (an unused feature has local importance 0).                    *)
(***************************************************************************)
Ranked == { a_ret.top_features[k] : k \in 1..Len(a_ret.top_features) }

C20_ScoreStrictlyMonotone ==
    \A r1, r2 \in Ranked :
        (r1.Local_Importance = r2.Local_Importance
            /\ r1.Sensor_Accuracy > r2.Sensor_Accuracy)
            => r1.Global_Score > r2.Global_Score

\* C20 as it holds: strictly higher for a positive local importance, and
\* the same score 0 for local importance 0
C20_ScoreMonotone ==
    \A r1, r2 \in Ranked :
        (r1.Local_Importance = r2.Local_Importance
            /\ r1.Sensor_Accuracy > r2.Sensor_Accuracy)
            => IF r1.Local_Importance > 0
               THEN r1.Global_Score > r2.Global_Score
               ELSE r1.Global_Score = 0 /\ r2.Global_Score = 0

\* a ranking holds two records of one positive local importance and two of
\* local importance 0, from sensors of different accuracy
C20_Witness ==
    /\ AnalysisEnded
    /\ a_ret.is_valid
    /\ \E r1, r2 \in Ranked :
          /\ r1.Local_Importance = r2.Local_Importance
          /\ r1.Local_Importance > 0
          /\ r1.Sensor_Accuracy > r2.Sensor_Accuracy
    /\ \E r1, r2 \in Ranked :
          /\ r1.Local_Importance = 0
          /\ r2.Local_Importance = 0
          /\ r1.Sensor_Accuracy > r2.Sensor_Accuracy
(***************************************************************************)
(* Feature tables with about TopN feature columns: A_ACC.csv with n        *)
(* features, the first two of importance 0 and the others of importance    *)
(* 3, 4, ..., n, alone or next to B_ACC.csv.                               *)
(***************************************************************************)
WideTable(n, acc) ==
    [rows |-> 6,
     feats |-> [c \in 1..n |-> <<"f", c>>],
     bad |-> 0,
     acc |-> acc,
     importances |-> [c \in 1..n |-> IF c <= 2 THEN 0 ELSE c]]

NarrowTable == [rows |-> 6, feats |-> << <<"f", 1>> >>, bad |-> 0,
                acc |-> 4, importances |-> <<4>>]

WideDirs ==
    { [exists |-> TRUE,
       files |-> << [stem |-> <<"A", "ACC">>, table |-> WideTable(n, acc)] >>
                    \o b] :
        n \in (TopN - 2)..MaxRank,
        acc \in 1..4,
        b \in { <<>>, << [stem |-> <<"B", "ACC">>, table |-> NarrowTable] >> } }

InitRank ==
    /\ ExtractorIdle
    /\ BuilderIdle
    /\ a_dir \in WideDirs
    /\ a_alg \in ALGORITHMS
    /\ a_targets = <<>>
    /\ a_pc = "call"
    /\ a_ret = [kind |-> "none", is_valid |-> FALSE,
                sensor_scores |-> <<>>, top_features |-> <<>>]
    /\ a_caller = "waiting"
    /\ a_loaded = <<>>
    /\ a_resolved = NotResolved
    /\ ChatIdle

SpecRank == InitRank /\ [][NextAnalysis]_vars

(***************************************************************************)
(* C21.  The top-feature table run_analysis returns holds min(20, number   *)
(* of records) of the records, in non-increasing order of global score,    *)
(* and no record left out of it has a global score strictly greater than   *)
(* a record in it.                                                         *)
(***************************************************************************)
AllRecords ==
    UNION { { records_of(a_dir.files[k].stem, a_dir.files[k].table)[c] :
                c \in 1..Len(records_of(a_dir.files[k].stem,
                                        a_dir.files[k].table)) } :
              k \in { n \in 1..Len(a_dir.files) :
                        \E m \in 1..Len(a_loaded) :
                            a_loaded[m].stem = a_dir.files[n].stem } }

TopFeatures == a_ret.top_features

C21_TopTwenty ==
    (AnalysisEnded /\ a_ret.is_valid)
        => /\ Len(TopFeatures)
                = (IF Cardinality(AllRecords) < 20
                   THEN Cardinality(AllRecords) ELSE 20)
           /\ Ranked \subseteq AllRecords
           /\ NoDuplicates(TopFeatures)
           /\ \A k \in 1..(Len(TopFeatures) - 1) :
                  TopFeatures[k].Global_Score >= TopFeatures[k + 1].Global_Score
           /\ \A out \in AllRecords \ Ranked :
                  \A in \in Ranked : out.Global_Score <= in.Global_Score

\* more than 20 records were ranked and some were left out
C21_Witness ==
    /\ AnalysisEnded
    /\ a_ret.is_valid
    /\ Cardinality(AllRecords) > 20
    /\ Len(TopFeatures) = 20
    /\ AllRecords \ Ranked # {}
(***************************************************************************)
(* C22.  The sensor ranking run_analysis returns has one entry per sensor  *)
(* name, and the entry's reliability is the largest accuracy over all the  *)
(* type-tables of that sensor: tables A_ACC and A_GYRO give one entry for  *)
(* sensor A, with the larger of the two accuracies.                        *)
(***************************************************************************)
SensorNameOf(stem) == << Head(stem) >>

C22_OneEntryPerSensor ==
    (AnalysisEnded /\ a_ret.is_valid)
        => /\ Len(a_ret.sensor_scores)
                = Cardinality({ SensorNameOf(r.Sensor) : r \in AllRecords })
           /\ \A k \in 1..Len(a_ret.sensor_scores) :
                  \A r \in AllRecords :
                      SensorNameOf(r.Sensor)
                            = SensorNameOf(a_ret.sensor_scores[k].Sensor)
                          => r.Sensor_Accuracy
                                <= a_ret.sensor_scores[k].Sensor_Accuracy
(***************************************************************************)
(* The end-to-end scenario: a dataset root with OK/sess1 and KO/sess1,     *)
(* each with one file A_ACC.parquet declared at 2000 Hz.  A session's      *)
(* stream has one of ScenarioLens samples, all of the same value (the      *)
(* Time column, not read for a declared rate, carries the sample index),   *)
(* or the session lacks its metadata.json.                                 *)
(***************************************************************************)
ScenarioRate == <<2000, 1>>
ScenarioLens == {2047, 2048, 10000}

ScenarioFile(n, v) ==
    FileSpec(<<"A", "ACC">>, TRUE,
             StreamFrame([k \in 1..n |-> k - 1], [k \in 1..n |-> v]),
             ScenarioRate, TRUE)

ScenarioFolders ==
    { Folder("ok", << ScenarioFile(n, v) >>) : n \in ScenarioLens, v \in 0..1 }
        \cup { Folder("missing", << ScenarioFile(2048, 0) >>) }

InitScenario ==
    /\ ExtractorIdle
    /\ AnalyzerIdle
    /\ \E ok \in ScenarioFolders, ko \in ScenarioFolders :
          BuilderStart(<< LabelDir("OK", << [label |-> "OK", name |-> "sess1",
                                            folder |-> ok] >>),
                          LabelDir("KO", << [label |-> "KO", name |-> "sess1",
                                            folder |-> ko] >>) >>)

SpecScenario == InitScenario /\ [][Next]_vars
(***************************************************************************)
(* C23.  For a dataset root with OK/sess1 and KO/sess1, each holding one   *)
(* sensor file of 10000 samples at 2000 Hz with valid metadata, the Corpus *)
(* Builder persists exactly one feature table; its row count over both     *)
(* sessions together is 10000 // next_pow2(2000) in the claim as stated,   *)
(* and the sum of the two sessions' n // next_pow2(2000) in the claim as   *)
(* amended (twice 10000 // 2048 for the two sessions of 10000 samples).    *)
(***************************************************************************)
SessionLen(d) == NRows(root[d].entries[1].folder.files[1].df)
SessionValid(d) == root[d].entries[1].folder.meta.exists

TwoSessionsOf(n) ==
    /\ Len(root) = 2
    /\ \A d \in 1..2 : SessionValid(d) /\ SessionLen(d) = n

PersistedRows ==
    SumOver(1..Len(out_dir.files),
            [k \in 1..Len(out_dir.files) |-> Len(out_dir.files[k][2])])

C23_ScenarioRowsOnce ==
    (pc = "done" /\ TwoSessionsOf(10000))
        => /\ Len(out_dir.files) = 1
           /\ PersistedRows = 10000 \div next_power_of_two(2000)

C23_ScenarioRowsPerSession ==
    (pc = "done" /\ SessionValid(1) /\ SessionValid(2))
        => /\ Len(out_dir.files) <= 1
           /\ PersistedRows
                = (SessionLen(1) \div next_power_of_two(2000))
                    + (SessionLen(2) \div next_power_of_two(2000))
           /\ TwoSessionsOf(10000)
                => /\ Len(out_dir.files) = 1
                   /\ DictKeys(out_dir.files) = { <<"A", "ACC">> }
                   /\ PersistedRows = 2 * (10000 \div 2048)

C23_Witness ==
    /\ pc = "done"
    /\ TwoSessionsOf(10000)
    /\ Len(out_dir.files) = 1
    /\ PersistedRows = 8
(***************************************************************************)
(* C24.  In load_and_label_all_data_parallel every step that creates the   *)
(* output directory or writes a feature table is taken when all the        *)
(* dispatched acquisition tasks have completed: no persistence step        *)
(* precedes a task completion.                                             *)
(***************************************************************************)
C24_BarrierBeforePersist ==
    [][out_dir' # out_dir
         => \A i \in 1..Len(tasks) : futures[i].state = "finished"]_vars

\* tables of two dispatched tasks have been written
C24_Witness ==
    /\ pc = "done"
    /\ Len(tasks) = 2
    /\ out_dir.exists
    /\ out_dir.files # EmptyDict
(***************************************************************************)
(* Dataset roots that hold more than the OK and KO directories: next to    *)
(* them a plain file, or a directory "backup" with an acquisition folder.  *)
(* validate_dataset_structure (file_utils.py 24-29) looks at OK and KO     *)
(* only and accepts such roots.                                            *)
(***************************************************************************)
PlainFolders == { Folder("ok", <<GoodA>>), Folder("ok", <<GoodB>>),
                  Folder("missing", <<GoodA>>) }

PlainPlacements ==
    { ps \in UNION { [1..k -> [label : Labels, name : AcqNames,
                               folder : PlainFolders]] : k \in 1..MaxAcq } :
        \A a, b \in 1..Len(ps) :
            a # b => <<ps[a].label, ps[a].name>> # <<ps[b].label, ps[b].name>> }

OtherEntries ==
    { <<>>,
      << [name |-> "notes.txt", isdir |-> FALSE, entries |-> <<>>] >>,
      << [name |-> "backup", isdir |-> TRUE,
          entries |-> << [name |-> "sess1", isdir |-> TRUE,
                          folder |-> Folder("ok", <<GoodA>>)] >>] >> }

InitRoots ==
    /\ ExtractorIdle
    /\ AnalyzerIdle
    /\ \E ps \in PlainPlacements, other \in OtherEntries :
          BuilderStart(<< LabelDir("OK", ps), LabelDir("KO", ps) >> \o other)

SpecRoots == InitRoots /\ [][Next]_vars

(***************************************************************************)
(* C25.  For a dataset root that holds the OK and KO directories, whatever *)
(* else it holds, every dispatched task carries the label OK or KO and     *)
(* every persisted feature row has Binary_Label OK or KO.                  *)
(***************************************************************************)
HasBothLabels ==
    \A label \in {"OK", "KO"} :
        \E d \in 1..Len(root) : root[d].name = label /\ root[d].isdir

PersistedRowSet ==
    UNION { RowsOf(out_dir.files[k][2]) : k \in 1..Len(out_dir.files) }

C25_LabelsAreBinary ==
    HasBothLabels
        => /\ \A i \in 1..Len(tasks) : tasks[i].binary_label \in {"OK", "KO"}
           /\ \A row \in PersistedRowSet : row.Binary_Label \in {"OK", "KO"}
(***************************************************************************)
(* C26.  A stream shorter than one window is skipped: the mapping a        *)
(* processed acquisition folder returns has no key for it and holds no     *)
(* empty table, and every persisted feature table has at least one row.    *)
(***************************************************************************)
ShortStream(i, n) ==
    /\ n <= Len(futures[i].visited)
    /\ ~futures[i].visited[n].raised
    /\ NRows(tasks[i].folder.files[n].df) < futures[i].visited[n].window_size

C26_ShortStreamSkipped ==
    /\ \A i \in 1..Len(futures) :
          futures[i].state = "finished" =>
             /\ \A key \in DictKeys(futures[i].local_results) :
                   Len(DictGet(futures[i].local_results, key)) >= 1
             /\ \A n \in 1..Len(tasks[i].folder.files) :
                   ShortStream(i, n) =>
                      SensorKey(tasks[i].folder.files[n].parts)
                         \notin DictKeys(futures[i].local_results)
    /\ \A k \in 1..Len(out_dir.files) : Len(out_dir.files[k][2]) >= 1

\* a folder with a short stream and a long one has been processed and saved
C26_Witness ==
    /\ pc = "done"
    /\ out_dir.exists
    /\ \E i \in 1..Len(futures) :
          /\ futures[i].state = "finished"
          /\ \E n \in 1..Len(tasks[i].folder.files) : ShortStream(i, n)
          /\ futures[i].local_results # EmptyDict
(***************************************************************************)
(* Streams around the high-speed threshold: one acquisition folder with    *)
(* one file A_ACC.parquet, declared at a rate of SpectralRates, with       *)
(* SpectralLens samples of one value; or a folder without metadata.json.   *)
(***************************************************************************)
SpectralRates == { <<999, 1>>, <<1000, 1>>, <<2001, 2>>, <<1001, 1>>,
                   <<1024, 1>>, <<1025, 1>> }
SpectralLens == {1023, 1024, 1230, 2048}

SpectralFile(odr, n, v) ==
    FileSpec(<<"A", "ACC">>, TRUE,
             StreamFrame([k \in 1..n |-> k - 1], [k \in 1..n |-> v]),
             odr, TRUE)

SpectralFolders ==
    { Folder("ok", << SpectralFile(odr, n, v) >>) :
        odr \in SpectralRates, n \in SpectralLens, v \in 0..1 }
        \cup { Folder("missing", << SpectralFile(<<1001, 1>>, 1024, 0) >>) }

InitSpectral ==
    /\ ExtractorIdle
    /\ AnalyzerIdle
    /\ \E label \in Labels, folder \in SpectralFolders :
          BuilderStart(<< LabelDir("OK", << [label |-> label, name |-> "sess1",
                                            folder |-> folder] >>),
                          LabelDir("KO", << [label |-> label, name |-> "sess1",
                                            folder |-> folder] >>) >>)

SpecSpectral == InitSpectral /\ [][Next]_vars

(***************************************************************************)
(* C27.  A table the processor emits for a stream has peak-frequency       *)
(* columns exactly when the stream's sampling rate is strictly above       *)
(* 1000 Hz, and when it has them the window length is a power of two.      *)
(***************************************************************************)
HasPeakFreq(row) == \E name \in DOMAIN row.features : name[4] = "peak_freq"

IsPowerOfTwo(n) == \E e \in 0..12 : ShiftLeft1(e) = n

\* file n of task i was processed and its table is in the returned mapping
Emitted(i, n) ==
    /\ futures[i].state = "finished"
    /\ n <= Len(futures[i].visited)
    /\ ~futures[i].visited[n].raised
    /\ NRows(tasks[i].folder.files[n].df) >= futures[i].visited[n].window_size
    /\ SensorKey(tasks[i].folder.files[n].parts)
          \in DictKeys(futures[i].local_results)

C27_PeakFreqOnlyHighSpeed ==
    \A i \in 1..Len(futures) :
       \A n \in 1..Len(tasks[i].folder.files) :
          Emitted(i, n) =>
             \A row \in RowsOf(DictGet(futures[i].local_results,
                                       SensorKey(tasks[i].folder.files[n].parts))) :
                /\ HasPeakFreq(row) <=> RatGT(futures[i].visited[n].odr, 1000)
                /\ HasPeakFreq(row)
                      => IsPowerOfTwo(futures[i].visited[n].window_size)

\* a table for a stream at exactly 1000 Hz, and one for a stream above it
C27_Witness ==
    \E i \in 1..Len(futures) :
       /\ Emitted(i, 1)
       /\ futures[i].visited[1].odr = <<1000, 1>>
       /\ ~HasPeakFreq(DictGet(futures[i].local_results, <<"A", "ACC">>)[1])

HighSpeedTableEmitted ==
    \E i \in 1..Len(futures) :
       /\ Emitted(i, 1)
       /\ futures[i].visited[1].odr = <<2001, 2>>
       /\ HasPeakFreq(DictGet(futures[i].local_results, <<"A", "ACC">>)[1])
(***************************************************************************)
(* The whole dispatcher, generate_ollma_response (core.py 107-253), for    *)
(* every category the router can hand over.                                *)
(***************************************************************************)
RouterCategories ==
    { "feature_importance_analysis", "time_series", "frequency_spectrum",
      "data_visualization", "dataset_metadata", "irrelevant_request",
      "normal_conversation", "not_json" }

\* lines 118-120, 154-156: output that does not decode is a normal
\* conversation
category_of(router_category) ==
    IF router_category = "not_json" THEN "normal_conversation"
    ELSE router_category

\* lines 131-150: sensor, sensor_type, subset, condition, label_detail and
\* acqusition_id are assigned only for these two categories
visual_params_bound(req_category) ==
    req_category \in {"time_series", "frequency_spectrum"}

\* lines 135-145: the flag set while the targets are read
parse_flag(req_category, target_sensors) ==
    IF ~visual_params_bound(req_category) THEN ""
    ELSE IF target_sensors = <<>> THEN ""
    ELSE IF /\ Cardinality({ target_sensors[k][1] :
                               k \in 1..Len(target_sensors) }) = 1
            /\ Len(target_sensors) > 1
         THEN ""
    ELSE IF Len(target_sensors) > 1 THEN "TOO_MANY_TARGETS"
    ELSE ""

\* lines 243-244
final_flag(req_category, system_flag) ==
    IF /\ req_category \in {"feature_importance_analysis", "time_series",
                            "frequency_spectrum"}
       /\ system_flag = ""
    THEN "DATA_ANALYSIS_SUCCESS"
    ELSE system_flag

\* the target_sensors lists of a visual_config
VisualTargets ==
    UNION { [1..k -> { <<n, t>> : n \in { <<"A">>, <<"B">> },
                                  t \in { None, <<"ACC">> } }] :
              k \in 0..MaxReqs }

\* lines 117-157
Parse ==
    /\ c_pc = "parse"
    /\ \E target_sensors \in VisualTargets :
          c_flag' = parse_flag(category_of(c_category), target_sensors)
    /\ c_category' = category_of(c_category)
    /\ c_pc' = "route"
    /\ UNCHANGED <<c_dataset, c_vague, c_extracted, c_tool, c_yields>>
    /\ UNCHANGED <<a_dir, a_alg, a_targets, a_pc, a_ret, a_caller, a_loaded, a_resolved>>
    /\ UNCHANGED xvars
    /\ UNCHANGED bvars

\* lines 201-234: what the dataset makes of the request: one of the checks
\* fails, or the report function is called and returns (fig, text) or None
PlotChecks == { "MISSING_SENSOR", "BAD_CONDITION", "BAD_LABEL", "BAD_TYPE",
                "BAD_ACQUSITION" }
PlotOutcomes == PlotChecks \cup { "report", "None" }

\* lines 195-234 and 243-244.  Line 201 reads sensor: an UnboundLocalError
\* when lines 131-150 were not run.  Unpacking None at 219/225 is a
\* TypeError.
Plot ==
    /\ c_pc = "route"
    /\ c_category \in {"data_visualization", "frequency_spectrum"}
    /\ IF ~c_dataset
       THEN /\ c_flag' = final_flag(c_category, "MISSING_DATASET")
            /\ c_pc' = "done"
            /\ c_tool' = c_tool
       ELSE IF ~visual_params_bound(c_category)
       THEN /\ c_pc' = "raised"
            /\ UNCHANGED <<c_flag, c_tool>>
       ELSE \E outcome \in PlotOutcomes :
               CASE outcome \in PlotChecks ->
                       /\ c_flag' = final_flag(c_category, outcome)
                       /\ c_pc' = "done"
                       /\ c_tool' = c_tool
                 [] outcome = "report" ->
                       /\ c_flag' = final_flag(c_category, c_flag)
                       /\ c_pc' = "done"
                       /\ c_tool' = "output"
                 [] outcome = "None" ->
                       /\ c_pc' = "raised"
                       /\ c_flag' = c_flag
                       /\ c_tool' = "no_output"
    /\ UNCHANGED <<c_dataset, c_vague, c_extracted, c_category, c_yields>>
    /\ UNCHANGED <<a_dir, a_alg, a_targets, a_pc, a_ret, a_caller, a_loaded, a_resolved>>
    /\ UNCHANGED xvars
    /\ UNCHANGED bvars

\* lines 237-244: the categories neither branch of lines 159 and 195 takes
NoTool ==
    /\ c_pc = "route"
    /\ c_category \notin {"feature_importance_analysis", "data_visualization",
                          "frequency_spectrum"}
    /\ c_flag' = final_flag(c_category,
                    IF c_category = "irrelevant_request"
                    THEN "IRRELEVANT_REQUEST"
                    ELSE IF c_category = "normal_conversation"
                    THEN "NORMAL_CONVERSATION"
                    ELSE c_flag)
    /\ c_pc' = "done"
    /\ UNCHANGED <<c_dataset, c_vague, c_extracted, c_category, c_tool, c_yields>>
    /\ UNCHANGED <<a_dir, a_alg, a_targets, a_pc, a_ret, a_caller, a_loaded, a_resolved>>
    /\ UNCHANGED xvars
    /\ UNCHANGED bvars

\* lines 247-253: the prompt of the responder is built (the guidance map
\* of prompts.py 251-331 is looked up with "in", no flag raises), then the
\* generator yields the status COMPLETE, the figure list and the text
YieldComplete ==
    /\ c_pc = "done"
    /\ c_yields' = Append(c_yields, "COMPLETE")
    /\ c_pc' = "complete"
    /\ UNCHANGED <<c_dataset, c_vague, c_extracted, c_category, c_tool, c_flag>>
    /\ UNCHANGED <<a_dir, a_alg, a_targets, a_pc, a_ret, a_caller, a_loaded, a_resolved>>
    /\ UNCHANGED xvars
    /\ UNCHANGED bvars

\* line 252
YieldFigures ==
    /\ c_pc = "complete"
    /\ c_yields' = Append(c_yields, "FIGURES")
    /\ c_pc' = "figures"
    /\ UNCHANGED <<c_dataset, c_vague, c_extracted, c_category, c_tool, c_flag>>
    /\ UNCHANGED <<a_dir, a_alg, a_targets, a_pc, a_ret, a_caller, a_loaded, a_resolved>>
    /\ UNCHANGED xvars
    /\ UNCHANGED bvars

\* line 253
YieldText ==
    /\ c_pc = "figures"
    /\ c_yields' = Append(c_yields, "TEXT")
    /\ c_pc' = "text"
    /\ UNCHANGED <<c_dataset, c_vague, c_extracted, c_category, c_tool, c_flag>>
    /\ UNCHANGED <<a_dir, a_alg, a_targets, a_pc, a_ret, a_caller, a_loaded, a_resolved>>
    /\ UNCHANGED xvars
    /\ UNCHANGED bvars

NextDispatch ==
    \/ Parse
    \/ Route
    \/ Prepare
    \/ RunAnalysis
    \/ Unpack
    \/ Finish
    \/ Plot
    \/ NoTool
    \/ YieldComplete
    \/ YieldFigures
    \/ YieldText

\* the analyzer's inputs vary for the category that uses them
InitDispatch ==
    /\ ExtractorIdle
    /\ BuilderIdle
    /\ c_category \in RouterCategories
    /\ IF c_category = "feature_importance_analysis"
       THEN /\ a_dir \in FeatureDirs
            /\ a_alg \in ChatTags
            /\ a_targets \in ChatTargets
       ELSE /\ a_dir = [exists |-> FALSE, files |-> <<>>]
            /\ a_alg = "rf"
            /\ a_targets = <<>>
    /\ a_pc = "idle"
    /\ a_ret = [kind |-> "none", is_valid |-> FALSE,
                sensor_scores |-> <<>>, top_features |-> <<>>]
    /\ a_caller = "waiting"
    /\ a_loaded = <<>>
    /\ a_resolved = NotResolved
    /\ c_dataset \in BOOLEAN
    /\ c_vague \in BOOLEAN
    /\ c_pc = "parse"
    /\ c_extracted = FALSE
    /\ c_flag = ""
    /\ c_tool = "none"
    /\ c_yields = <<>>

SpecDispatch == InitDispatch /\ [][NextDispatch]_vars

\* the generator is run to its end by the loop that consumes it
\* (app.py 243-265)
SpecDispatchFair == SpecDispatch /\ WF_vars(NextDispatch)

(***************************************************************************)
(* C28.  The system flag is DATA_ANALYSIS_SUCCESS only when an analysis or *)
(* plotting tool was invoked for the request and returned output.          *)
(***************************************************************************)
C28_SuccessOnlyAfterTool ==
    c_flag = "DATA_ANALYSIS_SUCCESS" => c_tool = "output"

(***************************************************************************)
(* C29.  Every call of the generator eventually yields the status          *)
(* COMPLETE and then the figure list, whatever the category and the        *)
(* outcome of the tools.                                                   *)
(***************************************************************************)
C29_AlwaysCompletes ==
    <>(Len(c_yields) >= 2 /\ c_yields[1] = "COMPLETE" /\ c_yields[2] = "FIGURES")
(***************************************************************************)
(* validate_dataset_structure (file_utils.py 6-133), the check a dataset   *)
(* root passes before it is used; the model keeps the boolean it returns.  *)
(***************************************************************************)
IsDirNamed(r, cls) == \E d \in 1..Len(r) : r[d].name = cls /\ r[d].isdir

\* lines 32-39: the session folders of a class directory
SessionsOf(r, cls) ==
    LET dir == r[CHOOSE d \in 1..Len(r) : r[d].name = cls /\ r[d].isdir]
        IsDir(e) == e.isdir
        dirs == SelectSeq(dir.entries, IsDir)
    IN  [k \in 1..Len(dirs) |-> dirs[k].folder]

\* os.listdir of a session folder: its sensor files and metadata.json
ListDir(folder) ==
    { folder.files[k].parts : k \in 1..Len(folder.files) }
        \cup (IF folder.meta.exists THEN { <<"metadata.json">> } ELSE {})

\* lines 55-131: the checks made on one session
session_ok(folder, reference_files) ==
    /\ ListDir(folder) = reference_files
    /\ folder.files # <<>>
    /\ \A k \in 1..Len(folder.files) : Len(folder.files[k].parts) >= 2
    /\ folder.meta.exists
    /\ folder.meta.has_session_info
    /\ folder.meta.has_sensors
    /\ \A k \in 1..Len(folder.files) :
          folder.files[k].parts \in DictKeys(folder.meta.sensors)

validate_dataset_structure(root_dir) ==
    /\ IsDirNamed(root_dir, "OK")
    /\ IsDirNamed(root_dir, "KO")
    /\ LET all_sessions == SessionsOf(root_dir, "OK") \o SessionsOf(root_dir, "KO")
       IN  /\ all_sessions # <<>>
           /\ ListDir(all_sessions[1]) # {}
           /\ <<"metadata.json">> \in ListDir(all_sessions[1])
           /\ \A n \in 1..Len(all_sessions) :
                 session_ok(all_sessions[n], ListDir(all_sessions[1]))

(***************************************************************************)
(* Datasets for the validator: OK/sess1 and KO/sess1, each with up to      *)
(* MaxFiles of A_ACC, B_ACC and A_ACC_X (a name with two "_"), every file  *)
(* declared in metadata.json under its name without extension; or a        *)
(* session without metadata.json.                                          *)
(***************************************************************************)
\* A_ACC_X at 1 Hz, two samples: window 1, two rows
GoodAX == FileSpec(<<"A", "ACC", "X">>, TRUE,
                   StreamFrame(<<0, 1>>, <<1, 1>>), <<1, 1>>, TRUE)

ValidatedFiles == {GoodA, GoodB, GoodAX}

ValidatedFolders ==
    { Folder("ok", fs) : fs \in FileSeqs(ValidatedFiles, MaxFiles) }
        \cup { Folder("missing", <<GoodA>>) }

InitValidated ==
    /\ ExtractorIdle
    /\ AnalyzerIdle
    /\ \E ok \in ValidatedFolders, ko \in ValidatedFolders :
          BuilderStart(<< LabelDir("OK", << [label |-> "OK", name |-> "sess1",
                                            folder |-> ok] >>),
                          LabelDir("KO", << [label |-> "KO", name |-> "sess1",
                                            folder |-> ko] >>) >>)

SpecValidated == InitValidated /\ [][Next]_vars

(***************************************************************************)
(* C30.  In a dataset validate_dataset_structure accepts, the processor's  *)
(* key of a file is the file name without extension: in every acquisition  *)
(* the metadata lookup succeeds for every file, and the returned mapping   *)
(* has one table per file, under that key.                                 *)
(***************************************************************************)
C30_KeysAgree ==
    validate_dataset_structure(root)
        => \A i \in 1..Len(futures) :
              futures[i].state = "finished"
                 => /\ Len(futures[i].visited) = Len(tasks[i].folder.files)
                    /\ \A n \in 1..Len(futures[i].visited) :
                          ~futures[i].visited[n].raised
                    /\ DictKeys(futures[i].local_results)
                          = { tasks[i].folder.files[n].parts :
                                n \in 1..Len(tasks[i].folder.files) }
====
